---- MODULE Spec2Model ----
(***************************************************************************)
(* Model of the pacing console (src/main.go): the per-record derivations   *)
(* calculatePace / calculateCheckin / calculateRisk, buildItems, sortItems,*)
(* applyFilter, the summary metrics, the owner / cohort / status rollups,  *)
(* the Bubble Tea model's Update handler, and the runs of main that write  *)
(* an export, a report or a trend report.                                  *)
(*                                                                         *)
(* Representation choices                                                  *)
(*  - a time.Time is the number of hours since Go's zero time              *)
(*    (0001-01-01T00:00Z); a location is its UTC offset in hours;          *)
(*  - a float64 is an exact rational [k |-> "fin", n, d] with d > 0, or    *)
(*    one of NaN / +Inf / -Inf; rounding of finite values is not modelled; *)
(*  - a string is a sequence of character codes; a date string is <<>>     *)
(*    (empty), <<y, m, d>> (the text YYYY-MM-DD, possibly with fields out  *)
(*    of range) or any other sequence (text not in the layout);            *)
(*  - the range over a Go map visits the keys in an order that the         *)
(*    language leaves open: a rollup is computed for a given order, and    *)
(*    the program takes any of them;                                       *)
(*  - out is what a run that writes an output, or a direct call of a       *)
(*    function, returned;                                                  *)
(*  - a memory is the sequence of the arrays allocated so far, and a slice *)
(*    in a memory is the index of its array (every slice of the program    *)
(*    spans its whole array); baseItems and items are the contents of the  *)
(*    model's two slices, and arrays tells whether the two slices share    *)
(*    one array and whether every array the model held when a message      *)
(*    arrived still held the same items when the handler returned.         *)
(***************************************************************************)
EXTENDS Integers, Sequences, FiniteSets, TLC

VARIABLES records, now, loc, checkinWindowDays, baseItems, items,
          sortMode, filterMode, showInsights, ready, summary, insights, out,
          db, loaded, filterFlags, arrays

vars == <<records, now, loc, checkinWindowDays, baseItems, items,
          sortMode, filterMode, showInsights, ready, summary, insights, out,
          db, loaded, filterFlags, arrays>>

----------------------------------------------------------------------------
(* float64 values *)

NaN == [k |-> "nan", n |-> 0, d |-> 1]

PInf == [k |-> "pinf", n |-> 0, d |-> 1]

NInf == [k |-> "ninf", n |-> 0, d |-> 1]

RECURSIVE GCD(_, _)
GCD(a, b) == IF b = 0 THEN a ELSE GCD(b, a % b)

Abs(x) == IF x < 0 THEN -x ELSE x

\* the finite value n / d (d > 0), kept in lowest terms
Reduced(n, d, g) ==
  [k |-> "fin",
   n |-> IF n < 0 THEN -((-n) \div g) ELSE n \div g,
   d |-> d \div g]

Fin(n, d) == Reduced(n, d, GCD(Abs(n), d))

\* the integral value n
FInt(n) == [k |-> "fin", n |-> n, d |-> 1]

IsFinite(a) == a.k = "fin"

\* a < b on float64: false whenever an operand is NaN
FLt(a, b) ==
  IF a.k = "nan" \/ b.k = "nan" THEN FALSE
  ELSE IF a.k = "pinf" \/ b.k = "ninf" THEN FALSE
  ELSE IF a.k = "ninf" \/ b.k = "pinf" THEN TRUE
  ELSE a.n * b.d < b.n * a.d

\* a <= b on float64: false whenever an operand is NaN
FLe(a, b) ==
  IF a.k = "nan" \/ b.k = "nan" THEN FALSE
  ELSE IF a.k = "ninf" \/ b.k = "pinf" THEN TRUE
  ELSE IF a.k = "pinf" \/ b.k = "ninf" THEN FALSE
  ELSE a.n * b.d <= b.n * a.d

\* numeric equality of two float64 values (NaN equals nothing)
FEq(a, b) == FLe(a, b) /\ FLe(b, a)

\* x / y for two finite integral float64 operands (IEEE 754 division)
FDiv(x, y) ==
  IF y = 0
    THEN IF x > 0 THEN PInf ELSE IF x < 0 THEN NInf ELSE NaN
    ELSE IF y < 0 THEN Fin(-x, -y) ELSE Fin(x, y)

\* a - b where b is finite
FSub(a, b) ==
  IF a.k = "fin" THEN Fin(a.n * b.d - b.n * a.d, a.d * b.d) ELSE a

\* a + b for finite operands
FAdd(a, b) == Fin(a.n * b.d + b.n * a.d, a.d * b.d)

\* x * b for an integral x and a finite b
FMulInt(x, b) == Fin(x * b.n, b.d)

\* math.Max(x, y) for finite operands
FMax(a, b) == IF FLt(a, b) THEN b ELSE a

clamp(value, min, max) ==
  IF FLt(value, min) THEN min
  ELSE IF FLt(max, value) THEN max
  ELSE value

----------------------------------------------------------------------------
(* strings *)

toLowerChar(c) == IF c >= 65 /\ c <= 90 THEN c + 32 ELSE c

\* strings.ToLower on ASCII text
ToLower(s) == [i \in 1..Len(s) |-> toLowerChar(s[i])]

RECURSIVE StrLess(_, _)
\* Go's < on strings: bytewise lexicographic order
StrLess(a, b) ==
  IF Len(b) = 0 THEN FALSE
  ELSE IF Len(a) = 0 THEN TRUE
  ELSE IF Head(a) # Head(b) THEN Head(a) < Head(b)
  ELSE StrLess(Tail(a), Tail(b))

\* unicode.IsSpace on ASCII: tab, line feed, vertical tab, form feed,
\* carriage return and space
IsSpace(c) == c \in {9, 10, 11, 12, 13, 32}

RECURSIVE TrimLeft(_)
TrimLeft(s) == IF s # <<>> /\ IsSpace(Head(s)) THEN TrimLeft(Tail(s)) ELSE s

RECURSIVE TrimRight(_)
TrimRight(s) ==
  IF s # <<>> /\ IsSpace(s[Len(s)]) THEN TrimRight(SubSeq(s, 1, Len(s) - 1)) ELSE s

\* strings.TrimSpace on ASCII text
TrimSpace(s) == TrimRight(TrimLeft(s))

\* strconv.Itoa for a number below 100
Itoa(n) == IF n < 10 THEN <<48 + n>> ELSE <<48 + (n \div 10), 48 + (n % 10)>>

----------------------------------------------------------------------------
(* time *)

HoursPerDay == 24

\* hours / 24 as a float64 number of days, for a whole number of hours
Days(hours) ==
  IF hours % HoursPerDay = 0
    THEN [k |-> "fin", n |-> IF hours < 0 THEN -((-hours) \div HoursPerDay) ELSE hours \div HoursPerDay, d |-> 1]
    ELSE Fin(hours, HoursPerDay)

\* the largest time.Duration, 2^63 - 1 ns = 153722867 whole minutes, in
\* whole hours
MaxDurationHours == 153722867 \div 60

IsLeap(y) == (y % 4 = 0) /\ ((y % 100 # 0) \/ (y % 400 = 0))

DaysIn(m, y) ==
  IF m = 2 THEN (IF IsLeap(y) THEN 29 ELSE 28)
  ELSE IF m \in {4, 6, 9, 11} THEN 30 ELSE 31

\* days of the year y that precede the first day of month m
DaysBeforeMonth(m, y) ==
  <<0, 31, 59, 90, 120, 151, 181, 212, 243, 273, 304, 334>>[m]
  + (IF m > 2 /\ IsLeap(y) THEN 1 ELSE 0)

\* hours from the zero time to midnight UTC of the civil date y-m-d
DateUTC(y, m, d) ==
  ( 365 * (y - 1) + ((y - 1) \div 4) - ((y - 1) \div 100) + ((y - 1) \div 400)
    + DaysBeforeMonth(m, y) + (d - 1) ) * HoursPerDay

\* time.Parse("2006-01-02", value): the instant, or err for text that is not
\* a valid calendar date in the layout
ParseDate(value) ==
  IF /\ Len(value) = 3
     /\ value[1] >= 1 /\ value[1] <= 9999
     /\ value[2] >= 1 /\ value[2] <= 12
     /\ value[3] >= 1 /\ value[3] <= DaysIn(value[2], value[1])
    THEN [err |-> FALSE, t |-> DateUTC(value[1], value[2], value[3])]
    ELSE [err |-> TRUE, t |-> 0]

\* parsedOr that falls back to the zero time
parsedOrZero(parsed, fallback) == IF parsed.err THEN 0 ELSE parsed.t

parsedOr(parsed, fallback) == IF parsed.err THEN fallback ELSE parsed.t

parseDateOrNow(value, fallback) == parsedOr(ParseDate(value), fallback)

parsedOptional(parsed) ==
  IF parsed.err THEN [ok |-> FALSE, t |-> 0] ELSE [ok |-> TRUE, t |-> parsed.t]

parseDateOptional(value) == parsedOptional(ParseDate(value))

\* t.Sub(u) in hours: the difference, saturated at the Duration range
Sub(t, u) ==
  IF t - u > MaxDurationHours THEN MaxDurationHours
  ELSE IF t - u < -MaxDurationHours THEN -MaxDurationHours
  ELSE t - u

\* floor division that is defined for a negative numerator
FloorDiv(a, b) == IF a >= 0 THEN a \div b ELSE -((-a + b - 1) \div b)

\* time.Date(t.Year(), t.Month(), t.Day(), 0, 0, 0, 0, location): the instant
\* of midnight, in the zone with UTC offset off, of t's civil day there
Midnight(t, off) == FloorDiv(t + off, HoursPerDay) * HoursPerDay - off

\* int(math.Round(hours / 24)): nearest integer, halves away from zero
RoundDays(hours) ==
  IF hours >= 0 THEN (2 * hours + HoursPerDay) \div (2 * HoursPerDay)
  ELSE -((2 * (-hours) + HoursPerDay) \div (2 * HoursPerDay))

IsZero(t) == t = 0

\* the civil date <<year, month, day>> in UTC of the instant t, for t at or
\* after the zero time: the inverse of DateUTC, by the 400-year-era
\* arithmetic on days counted from the first of March of year 0
CivilOfShifted(era, doe, yoe) ==
  LET doy == doe - (365 * yoe + (yoe \div 4) - (yoe \div 100))
      mp == (5 * doy + 2) \div 153
      m == IF mp < 10 THEN mp + 3 ELSE mp - 9
  IN <<yoe + era * 400 + (IF m <= 2 THEN 1 ELSE 0), m, doy - ((153 * mp + 2) \div 5) + 1>>

CivilOfEra(era, doe) ==
  CivilOfShifted(era, doe,
    (doe - (doe \div 1460) + (doe \div 36524) - (doe \div 146096)) \div 365)

Civil(t) ==
  CivilOfEra(((t \div HoursPerDay) + 306) \div 146097, ((t \div HoursPerDay) + 306) % 146097)

\* the month names of the layout element "Jan"
MonthAbbrev ==
  << <<74, 97, 110>>, <<70, 101, 98>>, <<77, 97, 114>>, <<65, 112, 114>>,
     <<77, 97, 121>>, <<74, 117, 110>>, <<74, 117, 108>>, <<65, 117, 103>>,
     <<83, 101, 112>>, <<79, 99, 116>>, <<78, 111, 118>>, <<68, 101, 99>> >>

\* t.Format("Jan 2") for the civil date <<year, month, day>>
FormatCivil(date) == MonthAbbrev[date[2]] \o <<32>> \o Itoa(date[3])

\* t.Format("Jan 2") of a UTC time
FormatJan2(t) == FormatCivil(Civil(t))

----------------------------------------------------------------------------
(* per-record derivations *)

\* the thresholds 0.1 and -0.1 of paceLabel
Tenth == [k |-> "fin", n |-> 1, d |-> 10]

MinusTenth == [k |-> "fin", n |-> -1, d |-> 10]

\* paceLabel with exclusive thresholds
paceLabelExclusive(delta) ==
  IF FLt(Tenth, delta) THEN "Ahead"
  ELSE IF FLt(delta, MinusTenth) THEN "Behind"
  ELSE "On Track"

paceLabel(delta) ==
  IF FLe(Tenth, delta) THEN "Ahead"
  ELSE IF FLe(delta, MinusTenth) THEN "Behind"
  ELSE "On Track"

\* the paceStatus literal calculatePace returns
paceStatus(percent, expected, delta, expectedAmount, gapAmount) ==
  [Label |-> paceLabel(delta),
   Delta |-> delta,
   Percent |-> percent,
   Expected |-> expected,
   ExpectedAmount |-> expectedAmount,
   GapAmount |-> gapAmount]

\* elapsedDays / totalDays, clamped
expectedOf(totalDays, elapsedDays) ==
  clamp(Fin(elapsedDays.n * totalDays.d, elapsedDays.d * totalDays.n), FInt(0), FInt(1))

paceOf(record, percent, expected, expectedAmount) ==
  paceStatus(percent, expected, FSub(percent, expected), expectedAmount,
             FSub(FInt(record.DisbursedToDate), expectedAmount))

paceBetween(record, t, awardDate, targetDate, expected) ==
  paceOf(record,
         clamp(FDiv(record.DisbursedToDate, record.Amount), FInt(0), FInt(1)),
         expected,
         FMulInt(record.Amount, expected))

\* paceDates with the elapsed time measured from the target date
paceDatesFromTarget(record, t, awardDate, targetDate) ==
  paceBetween(record, t, awardDate, targetDate,
              expectedOf(FMax(FInt(1), Days(Sub(targetDate, awardDate))),
                         FMax(FInt(0), Days(Sub(t, targetDate)))))

paceDates(record, t, awardDate, targetDate) ==
  paceBetween(record, t, awardDate, targetDate,
              expectedOf(FMax(FInt(1), Days(Sub(targetDate, awardDate))),
                         FMax(FInt(0), Days(Sub(t, awardDate)))))

calculatePace(record, t) ==
  paceDates(record, t, parseDateOrNow(record.AwardDate, t),
            parseDateOrNow(record.TargetDate, t))

checkinOf(checkDate, daysUntil, windowDays) ==
  [Label |-> IF daysUntil < 0 THEN "Overdue"
             ELSE IF daysUntil <= windowDays THEN "Due Soon"
             ELSE "Scheduled",
   Days |-> daysUntil,
   Date |-> checkDate]

checkinAt(checkDate, nowDate, windowDays) ==
  checkinOf(checkDate, RoundDays(Sub(checkDate, nowDate)), windowDays)

checkinParsed(parsed, t, off, windowDays) ==
  IF ~parsed.ok THEN [Label |-> "Unscheduled", Days |-> 0, Date |-> 0]
  ELSE checkinAt(Midnight(parsed.t, 0), Midnight(t, off), windowDays)

calculateCheckin(record, t, off, windowDays) ==
  IF record.NextCheckin = <<>> THEN [Label |-> "Unscheduled", Days |-> 0, Date |-> 0]
  ELSE checkinParsed(parseDateOptional(record.NextCheckin), t, off, windowDays)

\* calculateRisk with three points for an unscheduled check-in
calculateRiskUnscheduledThree(pace, check) ==
  LET score == 2 * (IF pace.Label = "Behind" THEN 1 ELSE 0)
               + 2 * (IF check.Label = "Overdue" THEN 1 ELSE 0)
               + (IF check.Label = "Due Soon" THEN 1 ELSE 0)
               + 3 * (IF check.Label = "Unscheduled" THEN 1 ELSE 0)
               - (IF pace.Label = "Ahead" THEN 1 ELSE 0)
      flags == (IF pace.Label = "Behind" THEN <<"Behind pace">> ELSE <<>>)
               \o (IF check.Label = "Overdue" THEN <<"Check-in overdue">> ELSE <<>>)
               \o (IF check.Label = "Due Soon" THEN <<"Check-in due soon">> ELSE <<>>)
               \o (IF check.Label = "Unscheduled" THEN <<"Check-in unscheduled">> ELSE <<>>)
  IN [Level |-> IF score >= 3 THEN "High" ELSE IF score >= 2 THEN "Medium" ELSE "Low",
      Flags |-> flags, Score |-> score]

\* calculateRisk with the High threshold one point too high
calculateRiskHighAtFour(pace, check) ==
  LET score == 2 * (IF pace.Label = "Behind" THEN 1 ELSE 0)
               + 2 * (IF check.Label = "Overdue" THEN 1 ELSE 0)
               + (IF check.Label = "Due Soon" THEN 1 ELSE 0)
               + (IF check.Label = "Unscheduled" THEN 1 ELSE 0)
               - (IF pace.Label = "Ahead" THEN 1 ELSE 0)
      flags == (IF pace.Label = "Behind" THEN <<"Behind pace">> ELSE <<>>)
               \o (IF check.Label = "Overdue" THEN <<"Check-in overdue">> ELSE <<>>)
               \o (IF check.Label = "Due Soon" THEN <<"Check-in due soon">> ELSE <<>>)
               \o (IF check.Label = "Unscheduled" THEN <<"Check-in unscheduled">> ELSE <<>>)
  IN [Level |-> IF score >= 4 THEN "High" ELSE IF score >= 2 THEN "Medium" ELSE "Low",
      Flags |-> flags, Score |-> score]

calculateRisk(pace, check) ==
  LET s1 == IF pace.Label = "Behind" THEN 2 ELSE 0
      f1 == IF pace.Label = "Behind" THEN <<"Behind pace">> ELSE <<>>
      s2 == IF check.Label = "Overdue" THEN s1 + 2 ELSE s1
      f2 == IF check.Label = "Overdue" THEN Append(f1, "Check-in overdue") ELSE f1
      s3 == IF check.Label = "Due Soon" THEN s2 + 1 ELSE s2
      f3 == IF check.Label = "Due Soon" THEN Append(f2, "Check-in due soon") ELSE f2
      s4 == IF check.Label = "Unscheduled" THEN s3 + 1 ELSE s3
      f4 == IF check.Label = "Unscheduled" THEN Append(f3, "Check-in unscheduled") ELSE f3
      score == IF pace.Label = "Ahead" THEN s4 - 1 ELSE s4
      level == IF score >= 3 THEN "High"
               ELSE IF score >= 2 THEN "Medium"
               ELSE "Low"
  IN [Level |-> level, Flags |-> f4, Score |-> score]

\* the awardItem literal buildItems appends
awardItem(record, pace, check) ==
  [data |-> record, pace |-> pace, check |-> check, risk |-> calculateRisk(pace, check)]

RECURSIVE buildItemsLoop(_, _, _, _, _)
buildItemsLoop(recs, t, off, checkinWindow, acc) ==
  IF recs = <<>> THEN acc
  ELSE buildItemsLoop(Tail(recs), t, off, checkinWindow,
         Append(acc, awardItem(Head(recs),
                               calculatePace(Head(recs), t),
                               calculateCheckin(Head(recs), t, off, checkinWindow))))

\* buildItems that classifies with the window as it was passed
buildItemsUnclamped(recs, t, off, windowDays) ==
  buildItemsLoop(recs, t, off, windowDays, <<>>)

buildItems(recs, t, off, windowDays) ==
  LET checkinWindow == IF windowDays < 0 THEN 0 ELSE windowDays
  IN buildItemsLoop(recs, t, off, checkinWindow, <<>>)

\* a slice in a memory
Place(mem, ref) == [mem |-> mem, ref |-> ref]

\* make: a new array with the given contents, and the slice of it
Allocated(mem, contents) == Place(Append(mem, contents), Len(mem) + 1)

\* buildItems in a memory: the items are appended to a new array
buildItemsAt(mem, recs, t, off, windowDays) ==
  Allocated(mem, buildItems(recs, t, off, windowDays))

----------------------------------------------------------------------------
(* ordering and subsetting of the item sequence *)

checkinRank(label) ==
  CASE label = "Overdue" -> 0
    [] label = "Due Soon" -> 1
    [] label = "Scheduled" -> 2
    [] OTHER -> 3

paceRank(label) ==
  CASE label = "Behind" -> 0
    [] label = "On Track" -> 1
    [] OTHER -> 2

\* the less function sortItems hands to sort.SliceStable in alpha mode
lessAlpha(left, right) == StrLess(ToLower(left.data.Scholar), ToLower(right.data.Scholar))

\* lessPriority with the pace rank compared before the check-in rank
lessPriorityPaceFirst(left, right) ==
  IF paceRank(left.pace.Label) # paceRank(right.pace.Label)
    THEN paceRank(left.pace.Label) < paceRank(right.pace.Label)
  ELSE IF checkinRank(left.check.Label) # checkinRank(right.check.Label)
    THEN checkinRank(left.check.Label) < checkinRank(right.check.Label)
  ELSE IF left.check.Date # right.check.Date
    THEN IF IsZero(left.check.Date) THEN FALSE
         ELSE IF IsZero(right.check.Date) THEN TRUE
         ELSE left.check.Date < right.check.Date
  ELSE StrLess(ToLower(left.data.Scholar), ToLower(right.data.Scholar))

\* lessPriority without the special case for the zero date
lessPriorityZeroFirst(left, right) ==
  IF checkinRank(left.check.Label) # checkinRank(right.check.Label)
    THEN checkinRank(left.check.Label) < checkinRank(right.check.Label)
  ELSE IF paceRank(left.pace.Label) # paceRank(right.pace.Label)
    THEN paceRank(left.pace.Label) < paceRank(right.pace.Label)
  ELSE IF left.check.Date # right.check.Date
    THEN left.check.Date < right.check.Date
  ELSE StrLess(ToLower(left.data.Scholar), ToLower(right.data.Scholar))

\* the less function sortItems hands to sort.SliceStable in priority mode
lessPriority(left, right) ==
  IF checkinRank(left.check.Label) # checkinRank(right.check.Label)
    THEN checkinRank(left.check.Label) < checkinRank(right.check.Label)
  ELSE IF paceRank(left.pace.Label) # paceRank(right.pace.Label)
    THEN paceRank(left.pace.Label) < paceRank(right.pace.Label)
  ELSE IF left.check.Date # right.check.Date
    THEN IF IsZero(left.check.Date) THEN FALSE
         ELSE IF IsZero(right.check.Date) THEN TRUE
         ELSE left.check.Date < right.check.Date
  ELSE StrLess(ToLower(left.data.Scholar), ToLower(right.data.Scholar))

\* lessOwner with the larger gap total first
lessOwnerGapDescending(left, right) ==
  IF left.High # right.High THEN left.High > right.High
  ELSE IF left.Overdue # right.Overdue THEN left.Overdue > right.Overdue
  ELSE IF ~FEq(left.GapTotal, right.GapTotal) THEN FLt(right.GapTotal, left.GapTotal)
  ELSE StrLess(ToLower(left.Owner), ToLower(right.Owner))

\* the less function buildOwnerSummaries hands to sort.SliceStable
lessOwner(left, right) ==
  IF left.High # right.High THEN left.High > right.High
  ELSE IF left.Overdue # right.Overdue THEN left.Overdue > right.Overdue
  ELSE IF ~FEq(left.GapTotal, right.GapTotal) THEN FLt(left.GapTotal, right.GapTotal)
  ELSE StrLess(ToLower(left.Owner), ToLower(right.Owner))

\* the less function buildCohortSummaries hands to sort.SliceStable
lessCohort(left, right) ==
  IF left.Behind # right.Behind THEN left.Behind > right.Behind
  ELSE IF ~FEq(left.GapTotal, right.GapTotal) THEN FLt(left.GapTotal, right.GapTotal)
  ELSE StrLess(ToLower(left.Cohort), ToLower(right.Cohort))

\* lessStatus with the smaller count first
lessStatusCountAscending(left, right) ==
  IF left.Count # right.Count THEN left.Count < right.Count
  ELSE StrLess(ToLower(left.Status), ToLower(right.Status))

\* the less function buildStatusSummary hands to sort.SliceStable
lessStatus(left, right) ==
  IF left.Count # right.Count THEN left.Count > right.Count
  ELSE StrLess(ToLower(left.Status), ToLower(right.Status))

\* the less function of the sort named by mode: the two item orders of
\* sortItems, the three rollup orders, and the string order of sort.Strings
less(mode, left, right) ==
  IF mode = "alpha" THEN lessAlpha(left, right)
  ELSE IF mode = "priority" THEN lessPriority(left, right)
  ELSE IF mode = "owners" THEN lessOwner(left, right)
  ELSE IF mode = "cohorts" THEN lessCohort(left, right)
  ELSE IF mode = "statuses" THEN lessStatus(left, right)
  ELSE StrLess(left, right)

Swap(s, i, j) == [s EXCEPT ![i] = s[j], ![j] = s[i]]

RECURSIVE insertionInnerUnstable(_, _, _)
\* insertionInner that also moves an element past its equals
insertionInnerUnstable(s, j, mode) ==
  IF j > 1 /\ ~less(mode, s[j - 1], s[j])
    THEN insertionInnerUnstable(Swap(s, j, j - 1), j - 1, mode)
    ELSE s

RECURSIVE insertionInner(_, _, _)
\* the inner loop of sort.insertionSort: element j sinks while it is less
\* than its left neighbour
insertionInner(s, j, mode) ==
  IF j > 1 /\ less(mode, s[j], s[j - 1])
    THEN insertionInner(Swap(s, j, j - 1), j - 1, mode)
    ELSE s

RECURSIVE insertionSort(_, _, _)
insertionSort(s, i, mode) ==
  IF i > Len(s) THEN s
  ELSE insertionSort(insertionInner(s, i, mode), i + 1, mode)

\* sort.SliceStable: for a slice of at most one block (20 elements) the
\* library's stable sort is a single insertion sort of the whole slice
SliceStable(s, mode) == insertionSort(s, 2, mode)

sortItems(its, mode) ==
  IF mode = "alpha" \/ mode = "priority" THEN SliceStable(its, mode) ELSE its

RECURSIVE applyFilterLoopNoDueSoon(_, _, _)
\* applyFilterLoop whose risk mode forgets the Due Soon check-ins
applyFilterLoopNoDueSoon(its, mode, filtered) ==
  IF its = <<>> THEN filtered
  ELSE
    LET item == Head(its)
    IN IF mode = "risk"
         THEN IF item.pace.Label = "Behind" \/ item.check.Label = "Overdue"
                THEN applyFilterLoopNoDueSoon(Tail(its), mode, Append(filtered, item))
                ELSE applyFilterLoopNoDueSoon(Tail(its), mode, filtered)
       ELSE IF mode = "high" /\ item.risk.Level = "High"
         THEN applyFilterLoopNoDueSoon(Tail(its), mode, Append(filtered, item))
         ELSE applyFilterLoopNoDueSoon(Tail(its), mode, filtered)

RECURSIVE applyFilterLoop(_, _, _)
applyFilterLoop(its, mode, filtered) ==
  IF its = <<>> THEN filtered
  ELSE
    LET item == Head(its)
    IN IF mode = "risk"
         THEN IF \/ item.pace.Label = "Behind"
                 \/ item.check.Label = "Overdue"
                 \/ item.check.Label = "Due Soon"
                THEN applyFilterLoop(Tail(its), mode, Append(filtered, item))
                ELSE applyFilterLoop(Tail(its), mode, filtered)
       ELSE IF mode = "high" /\ item.risk.Level = "High"
         THEN applyFilterLoop(Tail(its), mode, Append(filtered, item))
         ELSE applyFilterLoop(Tail(its), mode, filtered)

applyFilter(its, mode) ==
  IF mode = "all" THEN its ELSE applyFilterLoop(its, mode, <<>>)

\* the sort of sortItems: it permutes the array of the slice it is given
SortedInPlace(place, mode) ==
  Place([place.mem EXCEPT ![place.ref] = sortItems(@, mode)], place.ref)

\* sortItems that sorts the slice it was given, without the copy
sortItemsInPlace(place, mode) == SortedInPlace(place, mode)

\* sortItems on a slice: the copy into a new array, which is then sorted
sortItemsAt(place, mode) ==
  SortedInPlace(Allocated(place.mem, place.mem[place.ref]), mode)

\* applyFilter on a slice: the slice itself in mode all, otherwise a new
\* array that the kept items are appended to
applyFilterAt(place, mode) ==
  IF mode = "all" THEN place
  ELSE Allocated(place.mem, applyFilter(place.mem[place.ref], mode))

----------------------------------------------------------------------------
(* the summary line *)

\* " · " in UTF-8
MiddleDot == <<32, 194, 183, 32>>

\* metricsStep that counts a High item as a Medium one as well
metricsStepHighTwice(metrics, item) ==
  [metrics EXCEPT
     !.TotalAwarded = FAdd(@, FInt(item.data.Amount)),
     !.TotalDisbursed = FAdd(@, FInt(item.data.DisbursedToDate)),
     !.TotalExpected = FAdd(@, item.pace.ExpectedAmount),
     !.TotalGap = FAdd(@, item.pace.GapAmount),
     !.Ahead = IF item.pace.Label = "Ahead" THEN @ + 1 ELSE @,
     !.Behind = IF item.pace.Label = "Behind" THEN @ + 1 ELSE @,
     !.OnTrack = IF item.pace.Label \notin {"Ahead", "Behind"} THEN @ + 1 ELSE @,
     !.Overdue = IF item.check.Label = "Overdue" THEN @ + 1 ELSE @,
     !.DueSoon = IF item.check.Label = "Due Soon" THEN @ + 1 ELSE @,
     !.High = IF item.risk.Level = "High" THEN @ + 1 ELSE @,
     !.Medium = IF item.risk.Level \in {"High", "Medium"} THEN @ + 1 ELSE @,
     !.Low = IF item.risk.Level \notin {"High", "Medium"} THEN @ + 1 ELSE @,
     !.Upcoming = IF ~IsZero(item.check.Date) /\ item.check.Label # "Overdue"
                    THEN Append(@, FormatJan2(item.check.Date) \o MiddleDot \o item.data.Scholar)
                    ELSE @]

\* one iteration of the loop of calculateSummaryMetrics
metricsStep(metrics, item) ==
  [metrics EXCEPT
     !.TotalAwarded = FAdd(@, FInt(item.data.Amount)),
     !.TotalDisbursed = FAdd(@, FInt(item.data.DisbursedToDate)),
     !.TotalExpected = FAdd(@, item.pace.ExpectedAmount),
     !.TotalGap = FAdd(@, item.pace.GapAmount),
     !.Ahead = IF item.pace.Label = "Ahead" THEN @ + 1 ELSE @,
     !.Behind = IF item.pace.Label = "Behind" THEN @ + 1 ELSE @,
     !.OnTrack = IF item.pace.Label \notin {"Ahead", "Behind"} THEN @ + 1 ELSE @,
     !.Overdue = IF item.check.Label = "Overdue" THEN @ + 1 ELSE @,
     !.DueSoon = IF item.check.Label = "Due Soon" THEN @ + 1 ELSE @,
     !.High = IF item.risk.Level = "High" THEN @ + 1 ELSE @,
     !.Medium = IF item.risk.Level = "Medium" THEN @ + 1 ELSE @,
     !.Low = IF item.risk.Level \notin {"High", "Medium"} THEN @ + 1 ELSE @,
     !.Upcoming = IF ~IsZero(item.check.Date) /\ item.check.Label # "Overdue"
                    THEN Append(@, FormatJan2(item.check.Date) \o MiddleDot \o item.data.Scholar)
                    ELSE @]

RECURSIVE metricsLoop(_, _)
metricsLoop(its, metrics) ==
  IF its = <<>> THEN metrics
  ELSE metricsLoop(Tail(its), metricsStep(metrics, Head(its)))

\* the summaryMetrics literal calculateSummaryMetrics starts from
metricsZero(count) ==
  [Count |-> count,
   TotalAwarded |-> FInt(0), TotalDisbursed |-> FInt(0),
   TotalExpected |-> FInt(0), TotalGap |-> FInt(0), Completion |-> FInt(0),
   Ahead |-> 0, OnTrack |-> 0, Behind |-> 0, Overdue |-> 0, DueSoon |-> 0,
   High |-> 0, Medium |-> 0, Low |-> 0, Upcoming |-> <<>>]

\* a / b for finite operands, b positive
FQuo(a, b) == Fin(a.n * b.d, a.d * b.n)

\* metricsCompletion measured against the expected total
metricsCompletionOfExpected(metrics) ==
  IF FLt(FInt(0), metrics.TotalAwarded) /\ FLt(FInt(0), metrics.TotalExpected)
    THEN [metrics EXCEPT !.Completion = FQuo(metrics.TotalDisbursed, metrics.TotalExpected)]
    ELSE metrics

\* the closing statement of calculateSummaryMetrics
metricsCompletion(metrics) ==
  IF FLt(FInt(0), metrics.TotalAwarded)
    THEN [metrics EXCEPT !.Completion = FQuo(metrics.TotalDisbursed, metrics.TotalAwarded)]
    ELSE metrics

calculateSummaryMetrics(its) == metricsCompletion(metricsLoop(its, metricsZero(Len(its))))

\* sort.Strings: ascending bytewise order
SortStrings(s) == insertionSort(s, 2, "strings")

RECURSIVE Join(_, _)
\* strings.Join
Join(parts, sep) ==
  IF parts = <<>> THEN <<>>
  ELSE IF Len(parts) = 1 THEN parts[1]
  ELSE parts[1] \o sep \o Join(Tail(parts), sep)

\* the preview of buildSummary: "None", or the joined entries cut to 64 bytes
\* and followed by an ellipsis
previewOf(joined) ==
  IF joined = <<>> THEN <<78, 111, 110, 101>>
  ELSE IF Len(joined) > 64 THEN SubSeq(joined, 1, 64) \o <<226, 128, 166>>
  ELSE joined

\* buildSummary: the values the summary line is formatted from; loaded is
\* false for the text "No records loaded."
buildSummary(metrics, dueSoonDays) ==
  IF metrics.Count = 0
    THEN [loaded |-> FALSE, metrics |-> metricsZero(0), dueSoonDays |-> 0, preview |-> <<>>]
    ELSE [loaded |-> TRUE,
          metrics |-> [metrics EXCEPT !.Upcoming = <<>>],
          dueSoonDays |-> dueSoonDays,
          preview |-> previewOf(Join(SortStrings(metrics.Upcoming), <<32, 124, 32>>))]

----------------------------------------------------------------------------
(* the group rollups *)

\* every order in which a range over a map with key set S can visit the keys
Orders(S) ==
  { order \in [1..Cardinality(S) -> S] :
      \A i, j \in 1..Cardinality(S) : order[i] = order[j] => i = j }

\* the entry of the key in the map, or the fresh one that the loop body
\* creates on the key's first item
Entry(index, key, fresh) == IF key \in DOMAIN index THEN index[key] ELSE fresh

\* the map after index[key] = entry
Upsert(index, key, entry) ==
  IF key \in DOMAIN index THEN [index EXCEPT ![key] = entry]
  ELSE index @@ (key :> entry)

\* the rows appended while ranging over the map in the given order
Rows(index, order) == [i \in 1..Len(order) |-> index[order[i]]]

ownerStep(entry, item) ==
  [entry EXCEPT
     !.Awards = @ + 1,
     !.GapTotal = FAdd(@, item.pace.GapAmount),
     !.High = IF item.risk.Level = "High" THEN @ + 1 ELSE @,
     !.Overdue = IF item.check.Label = "Overdue" THEN @ + 1 ELSE @,
     !.DueSoon = IF item.check.Label = "Due Soon" THEN @ + 1 ELSE @]

RECURSIVE ownerIndex(_, _)
\* the first loop of buildOwnerSummaries
ownerIndex(its, index) ==
  IF its = <<>> THEN index
  ELSE ownerIndex(Tail(its),
         Upsert(index, Head(its).data.Owner,
                ownerStep(Entry(index, Head(its).data.Owner,
                                [Owner |-> Head(its).data.Owner, Awards |-> 0, High |-> 0,
                                 Overdue |-> 0, DueSoon |-> 0, GapTotal |-> FInt(0)]),
                          Head(its))))

\* buildOwnerSummaries when the range over the index visits the keys in the
\* given order
buildOwnerSummaries(its, order) ==
  insertionSort(Rows(ownerIndex(its, <<>>), order), 2, "owners")

ownerKeys(its) == { its[i].data.Owner : i \in DOMAIN its }

\* cohortStep that leaves an item without a positive amount out of the
\* award count
cohortStepSkipNonPositive(entry, item) ==
  IF item.data.Amount > 0
    THEN [entry EXCEPT
            !.Awards = @ + 1,
            !.GapTotal = FAdd(@, item.pace.GapAmount),
            !.Behind = IF item.pace.Label = "Behind" THEN @ + 1 ELSE @,
            !.Completion = FAdd(@, FDiv(item.data.DisbursedToDate, item.data.Amount))]
    ELSE [entry EXCEPT
            !.GapTotal = FAdd(@, item.pace.GapAmount),
            !.Behind = IF item.pace.Label = "Behind" THEN @ + 1 ELSE @]

cohortStep(entry, item) ==
  [entry EXCEPT
     !.Awards = @ + 1,
     !.GapTotal = FAdd(@, item.pace.GapAmount),
     !.Behind = IF item.pace.Label = "Behind" THEN @ + 1 ELSE @,
     !.Completion = IF item.data.Amount > 0
                      THEN FAdd(@, FDiv(item.data.DisbursedToDate, item.data.Amount))
                      ELSE @]

RECURSIVE cohortIndex(_, _)
\* the first loop of buildCohortSummaries
cohortIndex(its, index) ==
  IF its = <<>> THEN index
  ELSE cohortIndex(Tail(its),
         Upsert(index, Head(its).data.Cohort,
                cohortStep(Entry(index, Head(its).data.Cohort,
                                 [Cohort |-> Head(its).data.Cohort, Awards |-> 0, Behind |-> 0,
                                  GapTotal |-> FInt(0), Completion |-> FInt(0)]),
                           Head(its))))

\* the division in the second loop of buildCohortSummaries
cohortMean(entry) ==
  IF entry.Awards > 0
    THEN [entry EXCEPT !.Completion = FQuo(@, FInt(entry.Awards))]
    ELSE entry

cohortMeans(index) == [key \in DOMAIN index |-> cohortMean(index[key])]

\* buildCohortSummaries when the range over the index visits the keys in the
\* given order
buildCohortSummaries(its, order) ==
  insertionSort(Rows(cohortMeans(cohortIndex(its, <<>>)), order), 2, "cohorts")

cohortKeys(its) == { its[i].data.Cohort : i \in DOMAIN its }

\* "Unspecified"
Unspecified == <<85, 110, 115, 112, 101, 99, 105, 102, 105, 101, 100>>

\* the key buildStatusSummary counts an item under
statusKey(status) == IF TrimSpace(status) = <<>> THEN Unspecified ELSE TrimSpace(status)

\* the increment of buildStatusSummary that counts a status once
statusStepOnce(entry) == [entry EXCEPT !.Count = 1]

statusStep(entry) == [entry EXCEPT !.Count = @ + 1]

RECURSIVE statusCounts(_, _)
\* the first loop of buildStatusSummary
statusCounts(its, counts) ==
  IF its = <<>> THEN counts
  ELSE statusCounts(Tail(its),
         Upsert(counts, statusKey(Head(its).data.Status),
                statusStep(Entry(counts, statusKey(Head(its).data.Status),
                                 [Status |-> statusKey(Head(its).data.Status), Count |-> 0]))))

\* buildStatusSummary when the range over the counts visits the keys in the
\* given order
buildStatusSummary(its, order) ==
  insertionSort(Rows(statusCounts(its, <<>>), order), 2, "statuses")

statusKeys(its) == { statusKey(its[i].data.Status) : i \in DOMAIN its }

\* s[:n] for a slice of any length
FirstN(s, n) == IF Len(s) > n THEN SubSeq(s, 1, n) ELSE s

\* the rows of the cohort watchlist
Watched(cohorts) ==
  SelectSeq(cohorts, LAMBDA row : ~(row.Behind = 0 /\ FLe(FInt(0), row.GapTotal)))

\* every value the three rollups can return for the items, one for each
\* order in which the range over the map can visit its keys
OwnerSummaries(its) ==
  { buildOwnerSummaries(its, order) : order \in Orders(ownerKeys(its)) }

CohortSummaries(its) ==
  { buildCohortSummaries(its, order) : order \in Orders(cohortKeys(its)) }

StatusSummaries(its) ==
  { buildStatusSummary(its, order) : order \in Orders(statusKeys(its)) }

\* buildInsights: the rows the insights text is formatted from, given what
\* the three rollups returned; loaded is false for the text "No records
\* loaded."
buildInsights(its, ownerSummaries, cohortSummaries, statusSummaries) ==
  IF Len(its) = 0
    THEN [loaded |-> FALSE, owners |-> <<>>, cohorts |-> <<>>, statuses |-> <<>>]
    ELSE [loaded |-> TRUE,
          owners |-> FirstN(ownerSummaries, 5),
          cohorts |-> FirstN(Watched(cohortSummaries), 4),
          statuses |-> statusSummaries]

\* every value buildInsights can return for the items
Insights(its) ==
  { buildInsights(its, ownerSummaries, cohortSummaries, statusSummaries) :
      ownerSummaries \in OwnerSummaries(its),
      cohortSummaries \in CohortSummaries(its),
      statusSummaries \in StatusSummaries(its) }

----------------------------------------------------------------------------
(* the record filters of the -owner, -cohort and -status flags *)

Comma == 44

RECURSIVE SplitLoop(_, _, _)
\* strings.Split(s, ","): parts are the parts that are complete, part is the
\* one being read
SplitLoop(s, parts, part) ==
  IF s = <<>> THEN Append(parts, part)
  ELSE IF Head(s) = Comma THEN SplitLoop(Tail(s), Append(parts, part), <<>>)
  ELSE SplitLoop(Tail(s), parts, Append(part, Head(s)))

Split(s) == SplitLoop(s, <<>>, <<>>)

\* parseFilterList: the set of values; the nil map is the empty set (a map
\* the function returns is never empty)
parseFilterList(raw) ==
  IF TrimSpace(raw) = <<>> THEN {}
  ELSE { ToLower(TrimSpace(Split(TrimSpace(raw))[i])) :
           i \in DOMAIN Split(TrimSpace(raw)) } \ {<<>>}

parseRecordFilters(ownerRaw, cohortRaw, statusRaw) ==
  [owners |-> parseFilterList(ownerRaw),
   cohorts |-> parseFilterList(cohortRaw),
   statuses |-> parseFilterList(statusRaw)]

\* "unspecified"
StrUnspecified == <<117, 110, 115, 112, 101, 99, 105, 102, 105, 101, 100>>

\* the status matchesRecordFilters looks up
filterStatus(record) ==
  IF ToLower(TrimSpace(record.Status)) = <<>> THEN StrUnspecified
  ELSE ToLower(TrimSpace(record.Status))

\* matchesRecordFilters that is content with one matching dimension
matchesRecordFiltersAny(record, filters) ==
  \/ filters.owners # {} /\ ToLower(TrimSpace(record.Owner)) \in filters.owners
  \/ filters.cohorts # {} /\ ToLower(TrimSpace(record.Cohort)) \in filters.cohorts
  \/ filters.statuses # {} /\ filterStatus(record) \in filters.statuses

matchesRecordFilters(record, filters) ==
  IF filters.owners # {} /\ ToLower(TrimSpace(record.Owner)) \notin filters.owners
    THEN FALSE
  ELSE IF filters.cohorts # {} /\ ToLower(TrimSpace(record.Cohort)) \notin filters.cohorts
    THEN FALSE
  ELSE IF filters.statuses # {} /\ filterStatus(record) \notin filters.statuses
    THEN FALSE
  ELSE TRUE

RECURSIVE applyRecordFiltersLoop(_, _, _)
applyRecordFiltersLoop(recs, filters, filtered) ==
  IF recs = <<>> THEN filtered
  ELSE IF ~matchesRecordFilters(Head(recs), filters)
    THEN applyRecordFiltersLoop(Tail(recs), filters, filtered)
  ELSE applyRecordFiltersLoop(Tail(recs), filters, Append(filtered, Head(recs)))

applyRecordFilters(recs, filters) ==
  IF filters.owners = {} /\ filters.cohorts = {} /\ filters.statuses = {} THEN recs
  ELSE applyRecordFiltersLoop(recs, filters, <<>>)

\* the three flags left at their default, the empty string
NoFlags == [owner |-> <<>>, cohort |-> <<>>, status |-> <<>>]

----------------------------------------------------------------------------
(* the snapshot database (src/unnamed/part_003) *)

\* the database before the first sync: no rows, and the two BIGSERIAL
\* sequences of the schema at their start
EmptyDB == [snapshotSeq |-> 0, awardSeq |-> 0, snapshots |-> {}, awards |-> {}]

\* db.BeginTx: a transaction on the database; the rows written in it are
\* pending, and values drawn from a sequence are drawn for good
BeginTx(database) ==
  [base |-> database, snapshotSeq |-> database.snapshotSeq,
   awardSeq |-> database.awardSeq, snapshots |-> {}, awards |-> {}]

\* tx.Rollback that leaves the pending rows in the tables
RollbackKeepsRows(tx) ==
  [snapshotSeq |-> tx.snapshotSeq, awardSeq |-> tx.awardSeq,
   snapshots |-> tx.base.snapshots \cup tx.snapshots,
   awards |-> tx.base.awards \cup tx.awards]

\* tx.Rollback: the pending rows are dropped
Rollback(tx) ==
  [snapshotSeq |-> tx.snapshotSeq, awardSeq |-> tx.awardSeq,
   snapshots |-> tx.base.snapshots, awards |-> tx.base.awards]

\* tx.Commit: the pending rows join the tables
Commit(tx) ==
  [snapshotSeq |-> tx.snapshotSeq, awardSeq |-> tx.awardSeq,
   snapshots |-> tx.base.snapshots \cup tx.snapshots,
   awards |-> tx.base.awards \cup tx.awards]

\* the row of pacing_snapshots the INSERT of insertSnapshot writes
snapshotRow(id, stats) ==
  [id |-> id, generated_at |-> stats.GeneratedAt, record_count |-> stats.RecordCount,
   due_soon_window |-> stats.DueSoonWindow, total_awarded |-> stats.TotalAwarded,
   total_disbursed |-> stats.TotalDisbursed, ahead_count |-> stats.Ahead,
   on_track_count |-> stats.OnTrack, behind_count |-> stats.Behind,
   overdue_count |-> stats.Overdue, due_soon_count |-> stats.DueSoon,
   high_risk_count |-> stats.High, medium_risk_count |-> stats.Medium,
   low_risk_count |-> stats.Low]

\* the row of pacing_awards the prepared INSERT writes for an item (the date
\* and notes columns are left out); checkin_days is NULL, written <<>>, for
\* an unscheduled check-in
awardRow(id, snapshotID, item) ==
  [id |-> id, snapshot_id |-> snapshotID, scholar |-> item.data.Scholar,
   cohort |-> item.data.Cohort, owner |-> item.data.Owner, status |-> item.data.Status,
   amount |-> item.data.Amount, disbursed_to_date |-> item.data.DisbursedToDate,
   pace_label |-> item.pace.Label, risk_level |-> item.risk.Level,
   risk_score |-> item.risk.Score, checkin_label |-> item.check.Label,
   checkin_days |-> IF item.check.Label # "Unscheduled" THEN <<item.check.Days>> ELSE <<>>]

\* the INSERT ... RETURNING id of insertSnapshot
insertSnapshotRow(tx, stats) ==
  [tx EXCEPT !.snapshotSeq = @ + 1,
             !.snapshots = @ \cup {snapshotRow(tx.snapshotSeq + 1, stats)}]

\* one execution of the prepared INSERT
insertAwardRow(tx, snapshotID, item) ==
  [tx EXCEPT !.awardSeq = @ + 1,
             !.awards = @ \cup {awardRow(tx.awardSeq + 1, snapshotID, item)}]

\* the places where a statement of insertSnapshot can fail; awardFault(k) is
\* the insert of the k-th item
Fault(at) == [at |-> at, k |-> 0]

awardFault(k) == [at |-> "award", k |-> k]

Faults(its) ==
  { Fault(at) : at \in {"none", "connect", "begin", "snapshot", "prepare", "commit"} }
    \cup { awardFault(k) : k \in 1..Len(its) }

RECURSIVE insertAwards(_, _, _, _, _)
\* the loop over the items and the commit that follows it
insertAwards(tx, snapshotID, its, k, fault) ==
  IF k > Len(its)
    THEN IF fault.at = "commit"
           THEN [db |-> Rollback(tx), err |-> TRUE]
           ELSE [db |-> Commit(tx), err |-> FALSE]
  ELSE IF fault = awardFault(k)
    THEN [db |-> Rollback(tx), err |-> TRUE]
  ELSE insertAwards(insertAwardRow(tx, snapshotID, its[k]), snapshotID, its, k + 1, fault)

\* insertSnapshot: the database it leaves and whether it returned an error,
\* when the statement named by fault fails
insertSnapshot(database, stats, its, fault) ==
  IF fault.at = "begin" THEN [db |-> database, err |-> TRUE]
  ELSE IF fault.at = "snapshot" THEN [db |-> Rollback(BeginTx(database)), err |-> TRUE]
  ELSE IF fault.at = "prepare"
    THEN [db |-> Rollback(insertSnapshotRow(BeginTx(database), stats)), err |-> TRUE]
  ELSE insertAwards(insertSnapshotRow(BeginTx(database), stats),
                    database.snapshotSeq + 1, its, 1, fault)

----------------------------------------------------------------------------
(* inputs *)

\* the longest record list the sorting and filtering properties are checked on
MaxRecords == 3

\* the longest record list the console is run on
MaxConsoleRecords == 2

Disbursement(scholar, owner, amount, disbursed, award, target, checkin) ==
  [Scholar |-> scholar, Cohort |-> <<67>>, Owner |-> owner, Status |-> <<>>,
   Amount |-> amount, DisbursedToDate |-> disbursed,
   AwardDate |-> award, TargetDate |-> target, NextCheckin |-> checkin]

\* "Ann", "ann", "amy", "Bo"
NameAnn == <<65, 110, 110>>

Nameann == <<97, 110, 110>>

Nameamy == <<97, 109, 121>>

NameBo == <<66, 111>>

OwnerX == <<88>>

OwnerY == <<89>>

\* text that is not in the YYYY-MM-DD layout, and a date that is in the
\* layout but not in the calendar (2025-02-30)
NotADate == <<0>>

BadDay == <<2025, 2, 30>>

\* 2025-07-02T00:00Z, the reference time of TestCalculatePaceBehind
T0 == DateUTC(2025, 7, 2)

Times == {T0 - 6, T0, T0 + 12, T0 + 30}

PaceRecords ==
  { Disbursement(NameAnn, OwnerX, amount, disbursed, award, target, checkin) :
      amount \in {-1000, 0, 1000},
      disbursed \in {-200, 0, 100, 200, 1500},
      award \in {<<2025, 1, 1>>, <<2025, 7, 2>>, <<2026, 1, 1>>, <<>>, BadDay},
      target \in {<<2024, 6, 1>>, <<2025, 7, 7>>, <<2026, 1, 1>>, <<>>, NotADate},
      checkin \in {<<>>, <<2025, 7, 1>>} }

CheckinRecords ==
  { Disbursement(NameAnn, OwnerX, 1000, disbursed, <<2025, 1, 1>>, <<2026, 1, 1>>, checkin) :
      disbursed \in {200, 500, 900},
      checkin \in {<<>>, NotADate, BadDay, <<1, 1, 1>>, <<2025, 6, 30>>, <<2025, 7, 1>>,
                   <<2025, 7, 2>>, <<2025, 7, 3>>, <<2025, 7, 4>>, <<2025, 7, 20>>} }

SortRecords ==
  { Disbursement(NameBo, OwnerX, 1000, 200, <<2025, 1, 1>>, <<2026, 1, 1>>, <<2025, 6, 20>>),
    Disbursement(Nameamy, OwnerX, 1000, 200, <<2025, 1, 1>>, <<2026, 1, 1>>, <<2025, 6, 20>>),
    Disbursement(NameAnn, OwnerX, 1000, 200, <<2025, 1, 1>>, <<2026, 1, 1>>, <<1, 1, 1>>),
    Disbursement(Nameann, OwnerX, 1000, 500, <<2025, 1, 1>>, <<2026, 1, 1>>, <<>>),
    Disbursement(NameAnn, OwnerY, 1000, 500, <<2025, 1, 1>>, <<2026, 1, 1>>, NotADate),
    Disbursement(NameBo, OwnerY, 1000, 200, <<2025, 1, 1>>, <<2026, 1, 1>>, <<2025, 8, 1>>),
    Disbursement(NameBo, OwnerY, 1000, 900, <<2025, 1, 1>>, <<2026, 1, 1>>, <<2025, 6, 25>>),
    Disbursement(Nameamy, OwnerY, 1000, 900, <<2025, 1, 1>>, <<2026, 1, 1>>, <<2025, 7, 4>>) }

\* the longest record list the summary and the rollups are checked on
MaxRollupRecords == 3

\* a record awarded on 2025-01-01 with target date 2026-01-01
Award(scholar, cohort, owner, status, amount, disbursed, checkin) ==
  [Scholar |-> scholar, Cohort |-> cohort, Owner |-> owner, Status |-> status,
   Amount |-> amount, DisbursedToDate |-> disbursed,
   AwardDate |-> <<2025, 1, 1>>, TargetDate |-> <<2026, 1, 1>>, NextCheckin |-> checkin]

\* owner "x"; cohorts "C", "c", "D"; statuses "Active", "active", " Active ",
\* "Hold" and " "
Ownerx == <<120>>

CohortC == <<67>>

Cohortc == <<99>>

CohortD == <<68>>

StatusActive == <<65, 99, 116, 105, 118, 101>>

Statusactive == <<97, 99, 116, 105, 118, 101>>

StatusPadded == <<32>> \o StatusActive \o <<32>>

StatusHold == <<72, 111, 108, 100>>

StatusBlank == <<32>>

RollupRecords ==
  { Award(NameAnn, CohortC, OwnerX, StatusActive, 1000, 1000, <<2025, 7, 4>>),
    Award(NameBo, CohortC, Ownerx, Statusactive, 9000, 0, <<2025, 8, 1>>),
    Award(Nameamy, Cohortc, OwnerY, StatusPadded, 1000, 200, <<2025, 6, 20>>),
    Award(NameAnn, CohortC, OwnerX, <<>>, 0, 0, <<>>),
    Award(NameBo, CohortD, OwnerY, StatusBlank, -1000, 200, <<2025, 7, 4>>),
    Award(Nameann, Cohortc, Ownerx, StatusActive, 1000, 500, <<2025, 8, 1>>),
    Award(Nameamy, CohortC, OwnerY, StatusHold, 1000, 500, <<>>) }

SeqsUpTo(S, n) == UNION { [1..k -> S] : k \in 0..n }

----------------------------------------------------------------------------
(* the program: main builds the model, Update handles one message *)

\* the model's two slices after main has built and sorted the items: shown
\* is the slice of the sorted items, and the first array is the one
\* buildItems returned with the contents built
Started(shown, built) ==
  /\ baseItems = shown.mem[1]
  /\ items = shown.mem[shown.ref]
  /\ arrays = [shared |-> shown.ref = 1, intact |-> shown.mem[1] = built]

\* main: the records loaded and passed through the record filters of the
\* flags, the items built at time t in the zone with offset off for the
\* -checkin-window flag value window, and the initial model
InitFrom(loadedRecords, given, t, off, window) ==
  /\ loaded = loadedRecords
  /\ filterFlags = given
  /\ records = applyRecordFilters(loadedRecords,
                  parseRecordFilters(given.owner, given.cohort, given.status))
  /\ now = t
  /\ loc = off
  /\ checkinWindowDays = window
  /\ \E built \in {buildItems(records, t, off, window)} :
       \E shown \in {sortItemsAt(applyFilterAt(Allocated(<<>>, built), "all"), "priority")} :
         Started(shown, built)
  /\ sortMode = "priority"
  /\ filterMode = "all"
  /\ showInsights = FALSE
  /\ ready = FALSE
  /\ summary = buildSummary(calculateSummaryMetrics(items), window)
  /\ insights \in Insights(items)
  /\ out = [op |-> "none"]
  /\ db = EmptyDB

\* main without record filter flags
InitWith(recs, t, off, window) == InitFrom(recs, NoFlags, t, off, window)

Init ==
  \E recs \in SeqsUpTo(SortRecords, MaxConsoleRecords), t \in {T0, T0 + 12},
     off \in {0}, window \in {1, 14} :
    InitWith(recs, t, off, window)

InitSort ==
  \E recs \in SeqsUpTo(SortRecords, MaxRecords), window \in {1, 14} :
    InitWith(recs, T0 + 12, 0, window)

InitPace ==
  \E r \in PaceRecords, t \in Times :
    InitWith(<<r>>, t, 0, 14)

InitCheckin ==
  \E r \in CheckinRecords, t \in Times, off \in {-12, -5, 0, 12, 13},
     window \in {-1, 0, 1, 14} :
    InitWith(<<r>>, t, off, window)

\* the arrays of m.baseItems and m.items, and the slice of m.items in them
Memory == IF arrays.shared THEN <<baseItems>> ELSE <<baseItems, items>>

ItemsRef == IF arrays.shared THEN 1 ELSE 2

\* the assignments to m.baseItems and m.items of a handler that ends with
\* the slice base for the one and the slice shown for the other; the arrays
\* held before are the first ones of the memory
Assigned(shown, base) ==
  /\ baseItems' = shown.mem[base]
  /\ items' = shown.mem[shown.ref]
  /\ arrays' = [shared |-> shown.ref = base,
                intact |-> /\ arrays.intact
                           /\ shown.mem[1] = baseItems
                           /\ shown.mem[ItemsRef] = items]

\* the closing statements of Update: the summary line and the insights
\* text are rebuilt from the displayed items
Rendered(its) ==
  /\ summary' = buildSummary(calculateSummaryMetrics(its), checkinWindowDays)
  /\ insights' \in Insights(its)

\* tea.WindowSizeMsg
WindowSize ==
  /\ ready' = TRUE
  /\ UNCHANGED <<records, now, loc, checkinWindowDays, baseItems, items,
                 sortMode, filterMode, showInsights, summary, insights, out, db,
                 loaded, filterFlags, arrays>>

\* key "r": rebuild every item at the current wall-clock time; the clock has
\* advanced (a refresh within the same hour rebuilds the same items and
\* leaves the state as it is)
KeyR ==
  \E t \in Times :
    /\ t > now
    /\ now' = t
    /\ \E shown \in {sortItemsAt(applyFilterAt(buildItemsAt(Memory, records, t, loc,
                                                             checkinWindowDays),
                                                filterMode), sortMode)} :
         Assigned(shown, Len(Memory) + 1)
    /\ Rendered(items')
    /\ UNCHANGED <<records, loc, checkinWindowDays, sortMode, filterMode,
                   showInsights, ready, out, db,
                 loaded, filterFlags>>

\* key "i"
KeyI ==
  /\ showInsights' = ~showInsights
  /\ Rendered(items)
  /\ UNCHANGED <<records, now, loc, checkinWindowDays, baseItems, items,
                 sortMode, filterMode, ready, out, db,
                 loaded, filterFlags, arrays>>

\* key "s"
KeyS ==
  /\ sortMode' = IF sortMode = "priority" THEN "alpha" ELSE "priority"
  /\ \E shown \in {sortItemsAt(applyFilterAt(Place(Memory, 1), filterMode), sortMode')} :
       Assigned(shown, 1)
  /\ Rendered(items')
  /\ UNCHANGED <<records, now, loc, checkinWindowDays, filterMode,
                 showInsights, ready, out, db,
                 loaded, filterFlags>>

\* key "f" with the filter applied to the displayed items
KeyFDisplayed ==
  /\ filterMode' = CASE filterMode = "all" -> "risk"
                     [] filterMode = "risk" -> "high"
                     [] OTHER -> "all"
  /\ \E shown \in {sortItemsAt(applyFilterAt(Place(Memory, ItemsRef), filterMode'), sortMode)} :
       Assigned(shown, 1)
  /\ Rendered(items')
  /\ UNCHANGED <<records, now, loc, checkinWindowDays, sortMode,
                 showInsights, ready, out, db,
                 loaded, filterFlags>>

\* key "f"
KeyF ==
  /\ filterMode' = CASE filterMode = "all" -> "risk"
                     [] filterMode = "risk" -> "high"
                     [] OTHER -> "all"
  /\ \E shown \in {sortItemsAt(applyFilterAt(Place(Memory, 1), filterMode'), sortMode)} :
       Assigned(shown, 1)
  /\ Rendered(items')
  /\ UNCHANGED <<records, now, loc, checkinWindowDays, sortMode,
                 showInsights, ready, out, db,
                 loaded, filterFlags>>

\* any other key: no case of the switch assigns a field, and the closing
\* statements run
KeyOther ==
  /\ Rendered(items)
  /\ UNCHANGED <<records, now, loc, checkinWindowDays, baseItems, items,
                 sortMode, filterMode, showInsights, ready, out, db,
                 loaded, filterFlags, arrays>>

\* key "q" or "ctrl+c": Update returns the model as it is, with tea.Quit
KeyQ == UNCHANGED vars

Next == WindowSize \/ KeyR \/ KeyI \/ KeyS \/ KeyF \/ KeyOther \/ KeyQ

Spec == Init /\ [][Next]_vars

\* the sort and focus keys alone, on longer record lists
NextSort == KeyS \/ KeyF

SpecSort == InitSort /\ [][NextSort]_vars

SpecPace == InitPace /\ [][Next]_vars

SpecCheckin == InitCheckin /\ [][Next]_vars

----------------------------------------------------------------------------
(* the runs of main that write an output instead of opening the console, *)
(* and direct calls of the filter and the sorter                         *)

\* "all", "risk", "high"
StrAll == <<97, 108, 108>>

StrRisk == <<114, 105, 115, 107>>

StrHigh == <<104, 105, 103, 104>>

\* normalizeFilterMode: the mode, or err for text that names no mode
normalizeFilterMode(mode) ==
  LET normalized == ToLower(TrimSpace(mode))
  IN IF normalized = <<>> \/ normalized = StrAll THEN [mode |-> "all", err |-> FALSE]
     ELSE IF normalized = StrRisk THEN [mode |-> "risk", err |-> FALSE]
     ELSE IF normalized = StrHigh THEN [mode |-> "high", err |-> FALSE]
     ELSE [mode |-> "", err |-> TRUE]

\* values of the -export-filter flag: "", "all", "risk", "high", " Risk ",
\* "HIGH", "bogus", "alpha"
ExportFilters ==
  { <<>>, StrAll, StrRisk, StrHigh, <<32, 82, 105, 115, 107, 32>>,
    <<72, 73, 71, 72>>, <<98, 111, 103, 117, 115>>, <<97, 108, 112, 104, 97>> }

\* mode strings handed to applyFilter and sortItems
ModeNames == {"all", "risk", "high", "alpha", "priority", "", "Risk", "bogus"}

\* what a run leaves behind when it stops on an error
Failed(op) ==
  [op |-> op, err |-> TRUE, mode |-> "", window |-> 0, items |-> <<>>,
   summary |-> metricsZero(0)]

\* main with -export: the payload of exportSnapshot, or the error exit for
\* an unknown -export-filter
Export ==
  \E flag \in ExportFilters :
    /\ out.op = "none"
    /\ out' = IF normalizeFilterMode(flag).err THEN Failed("export")
              ELSE LET exported == sortItems(applyFilter(baseItems,
                                     normalizeFilterMode(flag).mode), "priority")
                   IN [op |-> "export", err |-> FALSE,
                       mode |-> normalizeFilterMode(flag).mode,
                       window |-> checkinWindowDays,
                       items |-> exported,
                       summary |-> calculateSummaryMetrics(exported)]
    /\ UNCHANGED <<records, now, loc, checkinWindowDays, baseItems, items,
                   sortMode, filterMode, showInsights, ready, summary, insights, db,
                 loaded, filterFlags, arrays>>

\* a call applyFilter(baseItems, mode): the function has a single result,
\* the slice, and no error result; arg is the argument, input what the array
\* of the argument holds when the call returns, fresh whether the result is
\* another array
CallApplyFilter ==
  \E mode \in ModeNames :
    /\ \E result \in {applyFilterAt(Place(<<baseItems>>, 1), mode)} :
         out' = [op |-> "applyFilter", err |-> FALSE, mode |-> mode, window |-> 0,
                 items |-> result.mem[result.ref], summary |-> metricsZero(0),
                 arg |-> baseItems, input |-> result.mem[1],
                 fresh |-> result.ref # 1]
    /\ UNCHANGED <<records, now, loc, checkinWindowDays, baseItems, items,
                   sortMode, filterMode, showInsights, ready, summary, insights, db,
                 loaded, filterFlags, arrays>>

\* a call sortItems(baseItems, mode): the function has a single result, the
\* slice, and no error result; arg, input and fresh as for applyFilter
CallSortItems ==
  \E mode \in ModeNames :
    /\ \E result \in {sortItemsAt(Place(<<baseItems>>, 1), mode)} :
         out' = [op |-> "sortItems", err |-> FALSE, mode |-> mode, window |-> 0,
                 items |-> result.mem[result.ref], summary |-> metricsZero(0),
                 arg |-> baseItems, input |-> result.mem[1],
                 fresh |-> result.ref # 1]
    /\ UNCHANGED <<records, now, loc, checkinWindowDays, baseItems, items,
                   sortMode, filterMode, showInsights, ready, summary, insights, db,
                 loaded, filterFlags, arrays>>

\* "text", "txt", "json" and ".json"
StrText == <<116, 101, 120, 116>>

StrTxt == <<116, 120, 116>>

StrJson == <<106, 115, 111, 110>>

DotJson == <<46>> \o StrJson

RECURSIVE ExtFrom(_, _)
\* the loop of filepath.Ext: backwards from position i to the last path
\* separator, for the last dot
ExtFrom(path, i) ==
  IF i < 1 \/ path[i] = 47 THEN <<>>
  ELSE IF path[i] = 46 THEN SubSeq(path, i, Len(path))
  ELSE ExtFrom(path, i - 1)

\* filepath.Ext
Ext(path) == ExtFrom(path, Len(path))

\* the branches of normalizeReportFormat for the format as it compares
reportFormatOf(path, format) ==
  IF format = <<>>
    THEN IF ToLower(Ext(path)) = DotJson THEN [format |-> "json", err |-> FALSE]
         ELSE [format |-> "text", err |-> FALSE]
  ELSE IF format = StrText \/ format = StrTxt THEN [format |-> "text", err |-> FALSE]
  ELSE IF format = StrJson THEN [format |-> "json", err |-> FALSE]
  ELSE [format |-> "", err |-> TRUE]

\* normalizeReportFormat that compares the format without trimming it
normalizeReportFormatUntrimmed(path, format) == reportFormatOf(path, ToLower(format))

\* normalizeReportFormat: the format, or err for an unsupported one
normalizeReportFormat(path, format) == reportFormatOf(path, TrimSpace(ToLower(format)))

\* "pacing-report.txt" and "pacing-report.json" shortened to "r.txt" and
\* "r.json", and "-"
PathTxt == <<114, 46>> \o StrTxt

PathJson == <<114>> \o DotJson

PathStdout == <<45>>

\* the -report and -report-format values a report is written with: the
\* three of the README, and a format that is not supported
ReportTargets ==
  { <<PathTxt, <<>> >>, <<PathJson, <<>> >>, <<PathStdout, StrText>>,
    <<PathTxt, <<99, 115, 118>> >> }

\* the payload of buildReportPayload, which the JSON report marshals and the
\* text report prints
reportPayload(format, window, reported, ownerSummaries, cohortSummaries, statusSummaries) ==
  [op |-> "report", err |-> FALSE, mode |-> "all", format |-> format,
   window |-> window,
   items |-> reported,
   summary |-> calculateSummaryMetrics(reported),
   owners |-> ownerSummaries,
   cohorts |-> cohortSummaries,
   statuses |-> statusSummaries]

\* main with -report: the error exit for an unsupported format, or the
\* report in the format resolved, for the orders in which the three rollups
\* range over their maps; a run writes one output
WriteReport ==
  \E target \in ReportTargets :
    /\ out.op = "none"
    /\ IF normalizeReportFormat(target[1], target[2]).err
         THEN out' = Failed("report")
         ELSE \E reported \in {sortItems(applyFilter(baseItems, "all"), "priority")} :
                \E ownerSummaries \in OwnerSummaries(reported),
                   cohortSummaries \in CohortSummaries(reported),
                   statusSummaries \in StatusSummaries(reported) :
                  out' = reportPayload(normalizeReportFormat(target[1], target[2]).format,
                                       checkinWindowDays, reported, ownerSummaries,
                                       cohortSummaries, statusSummaries)
    /\ UNCHANGED <<records, now, loc, checkinWindowDays, baseItems, items,
                   sortMode, filterMode, showInsights, ready, summary, insights, db,
                   loaded, filterFlags, arrays>>

\* values of a report path: "r.json", "r.JSON", "r.Json", "r.txt", "r",
\* "-", ".json", "r.json.txt", "a.json/r", "a/r.json", "r.json " and "json"
ReportPaths ==
  { PathJson, <<114, 46, 74, 83, 79, 78>>, <<114, 46, 74, 115, 111, 110>>, PathTxt,
    <<114>>, PathStdout, DotJson, PathJson \o <<46>> \o StrTxt,
    <<97>> \o DotJson \o <<47, 114>>, <<97, 47>> \o PathJson, PathJson \o <<32>>,
    StrJson }

\* values of a report format: "", " ", "text", "txt", "json", " TXT ",
\* "Text", "JSON ", "csv", ".json" and "text,json"
ReportFormats ==
  { <<>>, <<32>>, StrText, StrTxt, StrJson, <<32, 84, 88, 84, 32>>,
    <<84, 101, 120, 116>>, <<74, 83, 79, 78, 32>>, <<99, 115, 118>>, DotJson,
    StrText \o <<44>> \o StrJson }

\* a call normalizeReportFormat(path, format)
CallNormalizeReportFormat ==
  \E path \in ReportPaths, format \in ReportFormats :
    /\ out' = [op |-> "normalizeReportFormat", path |-> path, arg |-> format,
               format |-> normalizeReportFormat(path, format).format,
               err |-> normalizeReportFormat(path, format).err]
    /\ UNCHANGED <<records, now, loc, checkinWindowDays, baseItems, items,
                   sortMode, filterMode, showInsights, ready, summary, insights, db,
                   loaded, filterFlags, arrays>>

InitFormats == InitWith(<<>>, T0 + 12, 0, 14)

NextFormats == CallNormalizeReportFormat

SpecFormats == InitFormats /\ [][NextFormats]_vars

\* the longest record list the focus filters are applied to
MaxFocusRecords == 2

\* records of every pace label and every check-in label at T0: nothing,
\* half and more than all of the award disbursed half way to the target
\* date; no check-in, one of 2025-07-01, of 2025-07-04 and of 2025-08-01
FocusRecords ==
  { Disbursement(NameAnn, OwnerX, 1000, disbursed, <<2025, 1, 1>>, <<2026, 1, 1>>, checkin) :
      disbursed \in {0, 500, 1500},
      checkin \in {<<>>, <<2025, 7, 1>>, <<2025, 7, 4>>, <<2025, 8, 1>>} }

InitFocus ==
  \E recs \in SeqsUpTo(FocusRecords, MaxFocusRecords) :
    InitWith(recs, T0, 0, 14)

NextFocus == KeyF \/ KeyR

SpecFocus == InitFocus /\ [][NextFocus]_vars

\* the longest record list a stored snapshot is taken of
MaxTrendRecords == 2

\* one iteration of the loop of buildSnapshotStats
statsStep(stats, item) ==
  [stats EXCEPT
     !.TotalAwarded = FAdd(@, FInt(item.data.Amount)),
     !.TotalDisbursed = FAdd(@, FInt(item.data.DisbursedToDate)),
     !.Ahead = IF item.pace.Label = "Ahead" THEN @ + 1 ELSE @,
     !.Behind = IF item.pace.Label = "Behind" THEN @ + 1 ELSE @,
     !.OnTrack = IF item.pace.Label \notin {"Ahead", "Behind"} THEN @ + 1 ELSE @,
     !.Overdue = IF item.check.Label = "Overdue" THEN @ + 1 ELSE @,
     !.DueSoon = IF item.check.Label = "Due Soon" THEN @ + 1 ELSE @,
     !.High = IF item.risk.Level = "High" THEN @ + 1 ELSE @,
     !.Medium = IF item.risk.Level = "Medium" THEN @ + 1 ELSE @,
     !.Low = IF item.risk.Level \notin {"High", "Medium"} THEN @ + 1 ELSE @]

RECURSIVE statsLoop(_, _)
statsLoop(its, stats) ==
  IF its = <<>> THEN stats
  ELSE statsLoop(Tail(its), statsStep(stats, Head(its)))

\* buildSnapshotStats at the time t
buildSnapshotStats(its, dueSoonDays, t) ==
  statsLoop(its,
    [GeneratedAt |-> t, RecordCount |-> Len(its),
     TotalAwarded |-> FInt(0), TotalDisbursed |-> FInt(0),
     Ahead |-> 0, OnTrack |-> 0, Behind |-> 0, Overdue |-> 0, DueSoon |-> 0,
     High |-> 0, Medium |-> 0, Low |-> 0, DueSoonWindow |-> dueSoonDays])

\* buildTrendDelta with the operands of the Overdue difference exchanged
buildTrendDeltaOverdueReversed(current, previous) ==
  [RecordCount |-> current.RecordCount - previous.RecordCount,
   TotalAwarded |-> FSub(current.TotalAwarded, previous.TotalAwarded),
   TotalDisbursed |-> FSub(current.TotalDisbursed, previous.TotalDisbursed),
   Ahead |-> current.Ahead - previous.Ahead,
   OnTrack |-> current.OnTrack - previous.OnTrack,
   Behind |-> current.Behind - previous.Behind,
   Overdue |-> previous.Overdue - current.Overdue,
   DueSoon |-> current.DueSoon - previous.DueSoon,
   High |-> current.High - previous.High,
   Medium |-> current.Medium - previous.Medium,
   Low |-> current.Low - previous.Low]

buildTrendDelta(current, previous) ==
  [RecordCount |-> current.RecordCount - previous.RecordCount,
   TotalAwarded |-> FSub(current.TotalAwarded, previous.TotalAwarded),
   TotalDisbursed |-> FSub(current.TotalDisbursed, previous.TotalDisbursed),
   Ahead |-> current.Ahead - previous.Ahead,
   OnTrack |-> current.OnTrack - previous.OnTrack,
   Behind |-> current.Behind - previous.Behind,
   Overdue |-> current.Overdue - previous.Overdue,
   DueSoon |-> current.DueSoon - previous.DueSoon,
   High |-> current.High - previous.High,
   Medium |-> current.Medium - previous.Medium,
   Low |-> current.Low - previous.Low]

\* the two snapshots of TestBuildTrendReportTextIncludesDelta
TestCurrent ==
  [GeneratedAt |-> DateUTC(2025, 5, 1) + 9, RecordCount |-> 10,
   TotalAwarded |-> FInt(120000), TotalDisbursed |-> FInt(70000),
   Ahead |-> 3, OnTrack |-> 4, Behind |-> 3, Overdue |-> 2, DueSoon |-> 1,
   High |-> 2, Medium |-> 4, Low |-> 4, DueSoonWindow |-> 14]

TestPrevious ==
  [GeneratedAt |-> DateUTC(2025, 4, 1) + 9, RecordCount |-> 9,
   TotalAwarded |-> FInt(110000), TotalDisbursed |-> FInt(65000),
   Ahead |-> 2, OnTrack |-> 5, Behind |-> 2, Overdue |-> 1, DueSoon |-> 2,
   High |-> 1, Medium |-> 4, Low |-> 4, DueSoonWindow |-> 14]

\* snapshots a database can hold: the two of the test, and those that a
\* sync on 2025-06-01 with window 14, or on 2025-07-02 with window 7, stored
\* for a record list
StoredSnapshots ==
  {TestCurrent, TestPrevious}
    \cup { buildSnapshotStats(buildItems(recs, run[1], 0, run[2]), run[2], run[1]) :
             recs \in SeqsUpTo(RollupRecords, MaxTrendRecords),
             run \in { <<DateUTC(2025, 6, 1) + 9, 14>>, <<T0 + 12, 7>> } }

\* main with -trend-report: the payload of buildTrendReportPayload for the
\* two snapshots that were loaded, in a format that is supported
TrendReport ==
  \E current \in StoredSnapshots, previous \in StoredSnapshots :
    /\ out.op = "none"
    /\ out' = [op |-> "trend", err |-> FALSE, current |-> current,
               previous |-> previous, delta |-> buildTrendDelta(current, previous)]
    /\ UNCHANGED <<records, now, loc, checkinWindowDays, baseItems, items,
                   sortMode, filterMode, showInsights, ready, summary, insights, db,
                 loaded, filterFlags, arrays>>

\* main returns from the trend report before any record is loaded
InitTrend == InitWith(<<>>, T0 + 12, 0, 14)

NextTrend == TrendReport

SpecTrend == InitTrend /\ [][NextTrend]_vars

InitRollup ==
  \E recs \in SeqsUpTo(RollupRecords, MaxRollupRecords) :
    InitWith(recs, T0 + 12, 0, 14)

\* the console keys that leave the clock alone
NextRollup == KeyS \/ KeyF \/ KeyI

SpecRollup == InitRollup /\ [][NextRollup]_vars

\* the runs that write a report or an export
NextReport == WriteReport \/ Export

SpecReport == InitRollup /\ [][NextReport]_vars

InitModes ==
  \E recs \in SeqsUpTo(SortRecords, MaxConsoleRecords) :
    InitWith(recs, T0 + 12, 0, 14)

NextModes == Export \/ CallApplyFilter \/ CallSortItems

SpecModes == InitModes /\ [][NextModes]_vars

\* the most snapshots the database is filled with
MaxSnapshots == 2

\* the longest record list a sync, an export or a report with a
\* caller-chosen window is run on
MaxSyncRecords == 2

\* syncToDatabase at the time t: no statement is executed when the
\* connection cannot be made
syncToDatabase(database, its, dueSoonDays, t, fault) ==
  IF fault.at = "connect" THEN [db |-> database, err |-> TRUE]
  ELSE insertSnapshot(database, buildSnapshotStats(its, dueSoonDays, t), its, fault)

\* main with -db-sync; the database outlives the run, and a later run on the
\* same data syncs again; before is the database the run found and fault the
\* statement that failed in it
SyncToDatabase ==
  \E fault \in Faults(baseItems) :
    /\ db.snapshotSeq < MaxSnapshots
    /\ db' = syncToDatabase(db, baseItems, checkinWindowDays, now, fault).db
    /\ out' = [op |-> "sync",
               err |-> syncToDatabase(db, baseItems, checkinWindowDays, now, fault).err,
               mode |-> "", window |-> checkinWindowDays, items |-> baseItems,
               summary |-> metricsZero(0), before |-> db, fault |-> fault]
    /\ UNCHANGED <<records, now, loc, checkinWindowDays, baseItems, items,
                   sortMode, filterMode, showInsights, ready, summary, insights,
                 loaded, filterFlags, arrays>>

\* records whose check-in is due today, tomorrow, past or not set
SyncRecords ==
  { Disbursement(NameAnn, OwnerX, 1000, 200, <<2025, 1, 1>>, <<2026, 1, 1>>, <<2025, 7, 2>>),
    Disbursement(NameBo, OwnerY, 1000, 500, <<2025, 1, 1>>, <<2026, 1, 1>>, <<2025, 7, 3>>),
    Disbursement(Nameamy, OwnerX, 1000, 900, <<2025, 1, 1>>, <<2026, 1, 1>>, <<2025, 6, 20>>),
    Disbursement(NameAnn, OwnerX, 0, 0, <<>>, NotADate, <<>>) }

\* the longest record list with malformed dates
MaxDateRecords == 2

\* every combination of a parsable, an empty and an unparsable award date,
\* target date and check-in date
DateRecords ==
  { Disbursement(NameAnn, OwnerX, 1000, 200, award, target, checkin) :
      award \in {<<2025, 1, 1>>, <<>>, BadDay},
      target \in {<<2026, 1, 1>>, <<>>, NotADate},
      checkin \in {<<2025, 7, 4>>, <<>>, NotADate} }

InitDates ==
  \E recs \in SeqsUpTo(DateRecords, MaxDateRecords) :
    InitWith(recs, T0 - 6, 0, 14)

\* the refresh key alone
NextDates == KeyR

SpecDates == InitDates /\ [][NextDates]_vars

\* the longest record list the record filters are applied to
MaxFilterRecords == 2

\* values of the -owner flag: "", "x", " X , y", "," and "z"
OwnerFlags == { <<>>, <<120>>, <<32, 88, 32, 44, 32, 121>>, <<44>>, <<122>> }

\* values of the -cohort flag: "" and "c"
CohortFlags == { <<>>, <<99>> }

\* values of the -status flag: "", "ACTIVE" and "hold,,Unspecified "
StatusFlags ==
  { <<>>, <<65, 67, 84, 73, 86, 69>>,
    StatusHold \o <<44, 44>> \o Unspecified \o <<32>> }

InitFilters ==
  \E recs \in SeqsUpTo(RollupRecords, MaxFilterRecords),
     owner \in OwnerFlags, cohort \in CohortFlags, status \in StatusFlags :
    InitFrom(recs, [owner |-> owner, cohort |-> cohort, status |-> status],
             T0 + 12, 0, 14)

SpecFilters == InitFilters /\ [][NextSort]_vars

\* the keys that assign the model's slices, and direct calls of the two
\* functions on the model's base items
InitFrame ==
  \E recs \in SeqsUpTo(SyncRecords, MaxSyncRecords) :
    InitWith(recs, T0, 0, 14)

NextFrame == KeyR \/ KeyS \/ KeyF \/ CallSortItems \/ CallApplyFilter

SpecFrame == InitFrame /\ [][NextFrame]_vars

InitOutputs ==
  \E recs \in SeqsUpTo(SyncRecords, MaxSyncRecords), window \in {-3, -1, 0, 1, 14} :
    InitWith(recs, T0 + 12, 0, window)

\* the runs that leave an output behind
NextOutputs == Export \/ WriteReport \/ SyncToDatabase

SpecOutputs == InitOutputs /\ [][NextOutputs]_vars

----------------------------------------------------------------------------
(* properties of the per-record derivations *)

Range(s) == { s[i] : i \in DOMAIN s }

InUnit(x) == FLe(FInt(0), x) /\ FLe(x, FInt(1))

\* C1: for every record and every reference time, calculatePace returns
\* Percent in [0,1] and Expected in [0,1].
C1_PercentExpectedInUnit ==
  \A it \in Range(baseItems) : InUnit(it.pace.Percent) /\ InUnit(it.pace.Expected)

\* C2: for every record with amount <= 0, calculatePace yields Percent = 0
\* (a finite value).
C2_NonPositiveAmountPercentZero ==
  \A it \in Range(baseItems) :
    it.data.Amount <= 0 => IsFinite(it.pace.Percent) /\ it.pace.Percent.n = 0

Bit(b) == IF b THEN 1 ELSE 0

RiskScoreOf(paceL, checkL) ==
  2 * Bit(paceL = "Behind") + 2 * Bit(checkL = "Overdue") + Bit(checkL = "Due Soon")
  + Bit(checkL = "Unscheduled") - Bit(paceL = "Ahead")

RiskFlagsOf(paceL, checkL) ==
  (IF paceL = "Behind" THEN <<"Behind pace">> ELSE <<>>)
  \o (IF checkL = "Overdue" THEN <<"Check-in overdue">> ELSE <<>>)
  \o (IF checkL = "Due Soon" THEN <<"Check-in due soon">> ELSE <<>>)
  \o (IF checkL = "Unscheduled" THEN <<"Check-in unscheduled">> ELSE <<>>)

\* C3: the risk of every item follows the rule table: the score is the sum
\* of the triggered weights, the flags are the triggered reasons in the
\* fixed order, and the level is High iff score >= 3, Medium iff score = 2,
\* Low otherwise.
C3_RiskRuleTable ==
  \A it \in Range(baseItems) :
    /\ it.risk.Score = RiskScoreOf(it.pace.Label, it.check.Label)
    /\ it.risk.Flags = RiskFlagsOf(it.pace.Label, it.check.Label)
    /\ (it.risk.Level = "High") <=> (it.risk.Score >= 3)
    /\ (it.risk.Level = "Medium") <=> (it.risk.Score = 2)
    /\ (it.risk.Level = "Low") <=> (it.risk.Score < 2)

\* a Behind item whose check-in is Overdue: score 4, High, both flags
C3_Witness ==
  \E it \in Range(baseItems) :
    /\ it.pace.Label = "Behind" /\ it.check.Label = "Overdue"
    /\ it.risk.Score = 4 /\ it.risk.Level = "High"
    /\ it.risk.Flags = <<"Behind pace", "Check-in overdue">>

\* C4: the pace label is determined by delta = percent - expected with
\* inclusive thresholds: delta >= 0.10 is Ahead, delta <= -0.10 is Behind,
\* anything strictly between is On Track, and the label is always one of
\* the three.
C4_PaceLabelThresholds ==
  \A it \in Range(baseItems) :
    /\ it.pace.Label \in {"Ahead", "Behind", "On Track"}
    /\ IsFinite(it.pace.Percent) =>
         it.pace.Delta.n * it.pace.Percent.d * it.pace.Expected.d
           = (it.pace.Percent.n * it.pace.Expected.d
              - it.pace.Expected.n * it.pace.Percent.d) * it.pace.Delta.d
    /\ (IsFinite(it.pace.Delta) /\ 10 * it.pace.Delta.n >= it.pace.Delta.d)
         => it.pace.Label = "Ahead"
    /\ (IsFinite(it.pace.Delta) /\ 10 * it.pace.Delta.n <= -it.pace.Delta.d)
         => it.pace.Label = "Behind"
    /\ (IsFinite(it.pace.Delta) /\ 10 * it.pace.Delta.n < it.pace.Delta.d
          /\ 10 * it.pace.Delta.n > -it.pace.Delta.d)
         => it.pace.Label = "On Track"

\* an item exactly on the upper threshold (delta = 1/10) that is Ahead
C4_Witness ==
  \E it \in Range(baseItems) :
    /\ IsFinite(it.pace.Delta)
    /\ 10 * it.pace.Delta.n = it.pace.Delta.d
    /\ it.pace.Label = "Ahead"

\* an item exactly on the lower threshold (delta = -1/10) that is Behind
C4_WitnessLower ==
  \E it \in Range(baseItems) :
    /\ IsFinite(it.pace.Delta)
    /\ 10 * it.pace.Delta.n = -it.pace.Delta.d
    /\ it.pace.Label = "Behind"

DatesParsable(record) ==
  ~ParseDate(record.AwardDate).err /\ ~ParseDate(record.TargetDate).err

\* hours in the award period, at least one day
TotalHours(record) ==
  IF ParseDate(record.TargetDate).t - ParseDate(record.AwardDate).t < HoursPerDay
    THEN HoursPerDay
    ELSE ParseDate(record.TargetDate).t - ParseDate(record.AwardDate).t

\* hours since the award date, at least zero
ElapsedHours(record, t) ==
  IF t - ParseDate(record.AwardDate).t < 0 THEN 0 ELSE t - ParseDate(record.AwardDate).t

TestRecord(record) ==
  /\ record.Amount = 1000 /\ record.DisbursedToDate = 200
  /\ record.AwardDate = <<2025, 1, 1>> /\ record.TargetDate = <<2026, 1, 1>>

\* C5: for parsable award and target dates, expected is elapsed/total
\* clamped to [0,1] with total = max(1 day, target - award) and
\* elapsed = max(0, now - award); expectedAmount = amount * expected and
\* gapAmount = disbursed - expectedAmount; the record of
\* TestCalculatePaceBehind at 2025-07-02 has expected 182/365, a positive
\* expectedAmount and label Behind.
C5_ExpectedFormula ==
  \A it \in Range(baseItems) :
    DatesParsable(it.data) =>
      /\ IsFinite(it.pace.Expected)
      /\ IF ElapsedHours(it.data, now) >= TotalHours(it.data)
           THEN it.pace.Expected.n = it.pace.Expected.d
           ELSE it.pace.Expected.n * TotalHours(it.data)
                  = ElapsedHours(it.data, now) * it.pace.Expected.d
      /\ it.pace.ExpectedAmount.n * it.pace.Expected.d
           = it.data.Amount * it.pace.Expected.n * it.pace.ExpectedAmount.d
      /\ it.pace.GapAmount.n * it.pace.ExpectedAmount.d
           = (it.data.DisbursedToDate * it.pace.ExpectedAmount.d - it.pace.ExpectedAmount.n)
             * it.pace.GapAmount.d
      /\ (TestRecord(it.data) /\ now = DateUTC(2025, 7, 2)) =>
           /\ TotalHours(it.data) = 365 * HoursPerDay
           /\ ElapsedHours(it.data, now) = 182 * HoursPerDay
           /\ it.pace.Expected.n * 365 = 182 * it.pace.Expected.d
           /\ it.pace.ExpectedAmount.n > 0
           /\ it.pace.Label = "Behind"

\* the record of TestCalculatePaceBehind, built at 2025-07-02T00:00Z
C5_Witness ==
  \E it \in Range(baseItems) :
    /\ TestRecord(it.data) /\ now = DateUTC(2025, 7, 2)
    /\ it.pace.Label = "Behind"
    /\ it.pace.Expected.n * 365 = 182 * it.pace.Expected.d

\* the civil day (days since 0001-01-01) of the instant t in the zone off
CivilDay(t, off) == FloorDiv(t + off, HoursPerDay)

\* the window calculateCheckin is called with
EffectiveWindow == IF checkinWindowDays < 0 THEN 0 ELSE checkinWindowDays

CheckinLabelOf(daysUntil, window) ==
  IF daysUntil < 0 THEN "Overdue"
  ELSE IF daysUntil <= window THEN "Due Soon"
  ELSE "Scheduled"

\* C6: every record gets exactly one of four check-in labels: Unscheduled
\* (no date, days = 0) when the check-in date is empty or unparsable;
\* otherwise, with daysUntil = check-in day minus today, Overdue iff
\* daysUntil < 0, Due Soon iff 0 <= daysUntil <= window, Scheduled iff
\* daysUntil > window.
C6_CheckinClassification ==
  \A it \in Range(baseItems) :
    IF ParseDate(it.data.NextCheckin).err
      THEN it.check.Label = "Unscheduled" /\ it.check.Days = 0 /\ IsZero(it.check.Date)
      ELSE it.check.Label =
             CheckinLabelOf(CivilDay(ParseDate(it.data.NextCheckin).t, 0) - CivilDay(now, loc),
                            EffectiveWindow)

----------------------------------------------------------------------------
(* properties of sortItems and applyFilter *)

\* the sequence Update (and main) hands to sortItems
SortInput == applyFilter(baseItems, filterMode)

Count(s, x) == Cardinality({ i \in DOMAIN s : s[i] = x })

IsPermutation(s, t) ==
  /\ Len(s) = Len(t)
  /\ \A x \in Range(s) \cup Range(t) : Count(s, x) = Count(t, x)

\* C7: after a priority sort every Overdue item precedes every item that
\* is not Overdue, whatever the pace labels, dates and names are.
C7_OverdueFirst ==
  sortMode = "priority" =>
    \A i, j \in DOMAIN items :
      (i < j) => ~(items[i].check.Label # "Overdue" /\ items[j].check.Label = "Overdue")

\* a priority sort moved an Overdue item that is not Behind in front of a
\* Behind item that is not Overdue
C7_Witness ==
  /\ sortMode = "priority"
  /\ \E i, j \in DOMAIN SortInput :
       /\ i < j
       /\ SortInput[i].check.Label # "Overdue" /\ SortInput[i].pace.Label = "Behind"
       /\ SortInput[j].check.Label = "Overdue" /\ SortInput[j].pace.Label # "Behind"

CheckinRankOf(label) ==
  IF label = "Overdue" THEN 0
  ELSE IF label = "Due Soon" THEN 1
  ELSE IF label = "Scheduled" THEN 2
  ELSE 3

PaceRankOf(label) ==
  IF label = "Behind" THEN 0 ELSE IF label = "On Track" THEN 1 ELSE 2

\* an item is dateless when its record has no parsable check-in date
Dateless(it) == ParseDate(it.data.NextCheckin).err

\* a precedes b strictly under the key as the claim words it: check-in
\* rank, pace rank, check-in date ascending with dateless items last,
\* scholar name ascending
KeyLessAsWorded(a, b) ==
  IF CheckinRankOf(a.check.Label) # CheckinRankOf(b.check.Label)
    THEN CheckinRankOf(a.check.Label) < CheckinRankOf(b.check.Label)
  ELSE IF PaceRankOf(a.pace.Label) # PaceRankOf(b.pace.Label)
    THEN PaceRankOf(a.pace.Label) < PaceRankOf(b.pace.Label)
  ELSE IF Dateless(a) # Dateless(b) THEN Dateless(b)
  ELSE IF ~Dateless(a) /\ a.check.Date # b.check.Date THEN a.check.Date < b.check.Date
  ELSE StrLess(a.data.Scholar, b.data.Scholar)

\* a precedes b strictly under the key the code sorts by: an item is last
\* in the date key when its stored Date is the zero time, and names are
\* compared lower-cased
KeyLessAmended(a, b) ==
  IF CheckinRankOf(a.check.Label) # CheckinRankOf(b.check.Label)
    THEN CheckinRankOf(a.check.Label) < CheckinRankOf(b.check.Label)
  ELSE IF PaceRankOf(a.pace.Label) # PaceRankOf(b.pace.Label)
    THEN PaceRankOf(a.pace.Label) < PaceRankOf(b.pace.Label)
  ELSE IF (a.check.Date = 0) # (b.check.Date = 0) THEN b.check.Date = 0
  ELSE IF a.check.Date # b.check.Date THEN a.check.Date < b.check.Date
  ELSE StrLess(ToLower(a.data.Scholar), ToLower(b.data.Scholar))

\* the priority comparator is a strict weak order on the items built
StrictWeakOrder ==
  \A a, b, c \in Range(baseItems) :
    /\ ~lessPriority(a, a)
    /\ (lessPriority(a, b) /\ lessPriority(b, c)) => lessPriority(a, c)
    /\ (~lessPriority(a, b) /\ ~lessPriority(b, a)
        /\ ~lessPriority(b, c) /\ ~lessPriority(c, b))
         => (~lessPriority(a, c) /\ ~lessPriority(c, a))

\* C8 as worded: the priority sort returns a permutation whose adjacent
\* pairs are non-decreasing under (check-in rank, pace rank, check-in date
\* ascending with dateless items last, scholar name ascending), and the
\* comparator is a strict weak order.
C8_AsWorded ==
  sortMode = "priority" =>
    /\ IsPermutation(items, SortInput)
    /\ \A i \in 1..(Len(items) - 1) : ~KeyLessAsWorded(items[i + 1], items[i])
    /\ StrictWeakOrder

\* C8 (amended): the priority sort returns a permutation whose adjacent
\* pairs are non-decreasing under (check-in rank, pace rank, check-in date
\* ascending with the items whose stored date is the zero time last,
\* lower-cased scholar name ascending), and the comparator is a strict weak
\* order.
C8_PrioritySorted ==
  sortMode = "priority" =>
    /\ IsPermutation(items, SortInput)
    /\ \A i \in 1..(Len(items) - 1) : ~KeyLessAmended(items[i + 1], items[i])
    /\ StrictWeakOrder

\* a priority sort of three distinct items that changed their order and put
\* an item with the zero date behind a dated item of the same ranks
C8_Witness ==
  /\ sortMode = "priority"
  /\ Len(items) = 3 /\ Cardinality(Range(items)) = 3
  /\ items # SortInput
  /\ \E i \in 1..2 :
       /\ items[i].check.Label = items[i + 1].check.Label
       /\ items[i].pace.Label = items[i + 1].pace.Label
       /\ items[i].check.Date # 0 /\ items[i + 1].check.Date = 0

\* two items agree on every sort key of the mode
SameKey(mode, a, b) ==
  IF mode = "alpha" THEN ToLower(a.data.Scholar) = ToLower(b.data.Scholar)
  ELSE /\ CheckinRankOf(a.check.Label) = CheckinRankOf(b.check.Label)
       /\ PaceRankOf(a.pace.Label) = PaceRankOf(b.pace.Label)
       /\ a.check.Date = b.check.Date
       /\ ToLower(a.data.Scholar) = ToLower(b.data.Scholar)

\* the items of s that agree with x on every sort key, in their order in s
KeyClass(s, mode, x) ==
  LET Same(y) == SameKey(mode, x, y) IN SelectSeq(s, Same)

\* C9: sortItems is stable in both modes: an alpha sort is ordered by
\* lower-cased scholar name, and items that are equal on every sort key
\* keep the relative order they had in the input.
C9_StableSort ==
  /\ sortMode = "alpha" =>
       \A i \in 1..(Len(items) - 1) :
         ~StrLess(ToLower(items[i + 1].data.Scholar), ToLower(items[i].data.Scholar))
  /\ \A x \in Range(SortInput) :
       KeyClass(items, sortMode, x) = KeyClass(SortInput, sortMode, x)

\* an alpha sort that reordered its input while two different items with
\* equal keys stayed in input order
C9_Witness ==
  /\ sortMode = "alpha"
  /\ items # SortInput
  /\ \E i, j \in DOMAIN SortInput :
       /\ i < j
       /\ SortInput[i] # SortInput[j]
       /\ SameKey("alpha", SortInput[i], SortInput[j])
       /\ \E k, l \in DOMAIN items :
            k < l /\ items[k] = SortInput[i] /\ items[l] = SortInput[j]

AtRisk(it) ==
  it.pace.Label = "Behind" \/ it.check.Label \in {"Overdue", "Due Soon"}

HighRisk(it) == it.risk.Level = "High"

\* C10: applyFilter returns, in input order and without duplication, the
\* input itself for mode all, exactly the items that are Behind, Overdue or
\* Due Soon for mode risk, and exactly the items of risk level High for
\* mode high.
C10_FilterModes ==
  /\ applyFilter(baseItems, "all") = baseItems
  /\ applyFilter(baseItems, "risk") = SelectSeq(baseItems, AtRisk)
  /\ applyFilter(baseItems, "high") = SelectSeq(baseItems, HighRisk)
  /\ IsPermutation(items, applyFilter(baseItems, filterMode))

\* the focus filter is risk, one of several items is Behind, none is
\* Overdue or Due Soon, and exactly that item is displayed
C10_Witness ==
  /\ filterMode = "risk"
  /\ Len(baseItems) > 1
  /\ Cardinality({ i \in DOMAIN baseItems : baseItems[i].pace.Label = "Behind" }) = 1
  /\ \A it \in Range(baseItems) : it.check.Label \notin {"Overdue", "Due Soon"}
  /\ Len(items) = 1 /\ items[1].pace.Label = "Behind"

----------------------------------------------------------------------------
(* properties of the mode arguments *)

FilterModes == {"all", "risk", "high"}

SortModes == {"alpha", "priority"}

\* C11: a filter mode other than all/risk/high handed to applyFilter, or a
\* sort mode other than alpha/priority handed to sortItems, gives an error
\* outcome and never a normal result
C11_UnknownModeIsError ==
  /\ (out.op = "applyFilter" /\ out.mode \notin FilterModes) => out.err
  /\ (out.op = "sortItems" /\ out.mode \notin SortModes) => out.err

----------------------------------------------------------------------------
(* properties of the summary metrics *)

RECURSIVE SumInt(_, _)
\* the sum of f[i] over the indices in S
SumInt(f, S) ==
  IF S = {} THEN 0
  ELSE LET i == CHOOSE x \in S : TRUE IN f[i] + SumInt(f, S \ {i})

RECURSIVE SumFloat(_, _)
SumFloat(f, S) ==
  IF S = {} THEN FInt(0)
  ELSE LET i == CHOOSE x \in S : TRUE IN FAdd(f[i], SumFloat(f, S \ {i}))

AmountTotal(its) == SumInt([i \in DOMAIN its |-> its[i].data.Amount], DOMAIN its)

DisbursedTotal(its) == SumInt([i \in DOMAIN its |-> its[i].data.DisbursedToDate], DOMAIN its)

ExpectedTotal(its) == SumFloat([i \in DOMAIN its |-> its[i].pace.ExpectedAmount], DOMAIN its)

GapTotalOf(its) == SumFloat([i \in DOMAIN its |-> its[i].pace.GapAmount], DOMAIN its)

\* the totals and the completion the summary of the items is to carry
TotalsAsStated(metrics, its) ==
  /\ metrics.Count = Len(its)
  /\ metrics.TotalAwarded = FInt(AmountTotal(its))
  /\ metrics.TotalDisbursed = FInt(DisbursedTotal(its))
  /\ metrics.TotalExpected = ExpectedTotal(its)
  /\ metrics.TotalGap = GapTotalOf(its)
  /\ metrics.Completion = IF AmountTotal(its) > 0
                             THEN Fin(DisbursedTotal(its), AmountTotal(its))
                             ELSE FInt(0)

\* C12: calculateSummaryMetrics sets Count to the number of items, the four
\* totals to the sums of amount, disbursed-to-date, expected amount and gap
\* amount, and Completion to TotalDisbursed / TotalAwarded when TotalAwarded
\* is positive and to 0 otherwise; the empty item set gives Count 0,
\* Completion 0, every bucket count 0 and no upcoming entry
C12_SummaryTotals ==
  /\ TotalsAsStated(calculateSummaryMetrics(items), items)
  /\ calculateSummaryMetrics(<<>>) = metricsZero(0)
  /\ items = <<>> => calculateSummaryMetrics(items) = metricsZero(0)

\* two or more items whose ratio of sums is strictly between 0 and 1
C12_Witness ==
  /\ Len(items) >= 2
  /\ AmountTotal(items) > 0
  /\ DisbursedTotal(items) > 0
  /\ DisbursedTotal(items) < AmountTotal(items)
  /\ calculateSummaryMetrics(items).Completion
       = Fin(DisbursedTotal(items), AmountTotal(items))

\* items whose amounts do not sum to a positive total
C12_WitnessNoAward ==
  /\ items # <<>>
  /\ AmountTotal(items) <= 0
  /\ DisbursedTotal(items) > 0
  /\ calculateSummaryMetrics(items).Completion = FInt(0)

\* the item has a check-in date and is not overdue
IsUpcoming(it) == ~ParseDate(it.data.NextCheckin).err /\ it.check.Label # "Overdue"

\* the entry "Jan 2 · Scholar" of an item, from the text of its check-in date
UpcomingEntry(it) ==
  MonthAbbrev[it.data.NextCheckin[2]] \o <<32>> \o Itoa(it.data.NextCheckin[3])
    \o MiddleDot \o it.data.Scholar

\* the entries of the list are those of the upcoming items, one for each
OneEntryPerUpcoming(upcoming, its) ==
  /\ Len(upcoming) = Cardinality({ i \in DOMAIN its : IsUpcoming(its[i]) })
  /\ \A e \in Range(upcoming) :
       Count(upcoming, e)
         = Cardinality({ i \in DOMAIN its : IsUpcoming(its[i]) /\ UpcomingEntry(its[i]) = e })

\* no entry of the list is followed by a smaller one
Ascending(strings) ==
  \A i, j \in DOMAIN strings : i < j => ~StrLess(strings[j], strings[i])

\* a report or an export has been written
Emitted == out.op \in {"report", "export"} /\ ~out.err

\* C13: the Upcoming list that calculateSummaryMetrics returns, and that a
\* report or an export emits, has one entry for each item with a check-in
\* date that is not Overdue and is in ascending lexicographic order
C13_UpcomingSorted ==
  Emitted =>
    /\ OneEntryPerUpcoming(out.summary.Upcoming, out.items)
    /\ Ascending(out.summary.Upcoming)

\* C14: the bucket counts of the summary partition the items: Ahead +
\* OnTrack + Behind = Count, High + Medium + Low = Count, and Overdue +
\* DueSoon <= Count, each item being counted in at most one check-in bucket
C14_BucketsPartition ==
  LET metrics == calculateSummaryMetrics(items)
  IN /\ metrics.Ahead + metrics.OnTrack + metrics.Behind = metrics.Count
     /\ metrics.High + metrics.Medium + metrics.Low = metrics.Count
     /\ metrics.Overdue + metrics.DueSoon <= metrics.Count
     /\ metrics.Ahead = Cardinality({ i \in DOMAIN items : items[i].pace.Label = "Ahead" })
     /\ metrics.Behind = Cardinality({ i \in DOMAIN items : items[i].pace.Label = "Behind" })
     /\ metrics.High = Cardinality({ i \in DOMAIN items : items[i].risk.Level = "High" })
     /\ metrics.Medium = Cardinality({ i \in DOMAIN items : items[i].risk.Level = "Medium" })
     /\ metrics.Overdue = Cardinality({ i \in DOMAIN items : items[i].check.Label = "Overdue" })
     /\ metrics.DueSoon = Cardinality({ i \in DOMAIN items : items[i].check.Label = "Due Soon" })

\* every pace bucket is occupied, and so are a check-in bucket, the High
\* bucket and the items outside the two check-in buckets
C14_Witness ==
  LET metrics == calculateSummaryMetrics(items)
  IN /\ metrics.Ahead > 0 /\ metrics.OnTrack > 0 /\ metrics.Behind > 0
     /\ metrics.High > 0
     /\ metrics.Overdue + metrics.DueSoon > 0
     /\ metrics.Overdue + metrics.DueSoon < metrics.Count

----------------------------------------------------------------------------
(* properties of the group rollups *)

\* the positions of the items of the cohort
InCohort(its, cohort) == { i \in DOMAIN its : its[i].data.Cohort = cohort }

\* disbursed / amount of an item with a positive amount, 0 of any other
RatioOrZero(it) ==
  IF it.data.Amount > 0 THEN Fin(it.data.DisbursedToDate, it.data.Amount) ELSE FInt(0)

\* the mean over all the items of the cohort of their ratios
MeanOfRatios(its, cohort) ==
  FQuo(SumFloat([i \in DOMAIN its |-> RatioOrZero(its[i])], InCohort(its, cohort)),
       FInt(Cardinality(InCohort(its, cohort))))

\* two items of one cohort: 1000 awarded and all disbursed, 9000 awarded and
\* nothing disbursed
CohortExample(its) ==
  /\ Len(its) = 2
  /\ its[1].data.Cohort = its[2].data.Cohort
  /\ \E i, j \in 1..2 :
       /\ its[i].data.Amount = 1000 /\ its[i].data.DisbursedToDate = 1000
       /\ its[j].data.Amount = 9000 /\ its[j].data.DisbursedToDate = 0

\* C15: the Completion of a cohort row is the sum, over the cohort's items
\* with a positive amount, of disbursed / amount, divided by the number of
\* all the cohort's items; for the cohort of (1000, 1000) and (9000, 0) it
\* is 0.50 while the Completion of the summary of the two items is 0.10
C15_CohortCompletion ==
  \A rows \in CohortSummaries(items) :
    /\ \A k \in DOMAIN rows :
         /\ rows[k].Awards = Cardinality(InCohort(items, rows[k].Cohort))
         /\ rows[k].Completion = MeanOfRatios(items, rows[k].Cohort)
    /\ CohortExample(items) =>
         /\ Len(rows) = 1
         /\ rows[1].Completion = Fin(1, 2)
         /\ calculateSummaryMetrics(items).Completion = Fin(1, 10)

\* the two items of the example are displayed
C15_Witness ==
  /\ CohortExample(items)
  /\ \E rows \in CohortSummaries(items) : rows[1].Completion = Fin(1, 2)

\* a cohort holds an item with a positive amount and one without
C15_WitnessNonPositive ==
  \E rows \in CohortSummaries(items), k \in 1..Len(items) :
    /\ k <= Len(rows)
    /\ \E i, j \in InCohort(items, rows[k].Cohort) :
         items[i].data.Amount > 0 /\ items[j].data.Amount <= 0
    /\ FLt(FInt(0), rows[k].Completion)

\* the positions of the items of the owner
OfOwner(its, owner) == { i \in DOMAIN its : its[i].data.Owner = owner }

\* the row of the owner, counted and summed over the owner's items
OwnerRowOf(its, owner) ==
  [Owner |-> owner,
   Awards |-> Cardinality(OfOwner(its, owner)),
   High |-> Cardinality({ i \in OfOwner(its, owner) : its[i].risk.Level = "High" }),
   Overdue |-> Cardinality({ i \in OfOwner(its, owner) : its[i].check.Label = "Overdue" }),
   DueSoon |-> Cardinality({ i \in OfOwner(its, owner) : its[i].check.Label = "Due Soon" }),
   GapTotal |-> SumFloat([i \in DOMAIN its |-> its[i].pace.GapAmount], OfOwner(its, owner))]

\* one row for each distinct owner string, carrying the owner's counts
OneRowPerOwner(rows, its) ==
  /\ Len(rows) = Cardinality(ownerKeys(its))
  /\ { rows[k].Owner : k \in DOMAIN rows } = ownerKeys(its)
  /\ \A k \in DOMAIN rows : rows[k] = OwnerRowOf(its, rows[k].Owner)

\* the two rows agree on High, Overdue and the gap total
OwnerNumbersTie(a, b) ==
  a.High = b.High /\ a.Overdue = b.Overdue /\ a.GapTotal = b.GapTotal

\* row a comes strictly before row b: High descending, Overdue descending,
\* gap total ascending, then the names aName of a and bName of b ascending
OwnerKeyLess(a, b, aName, bName) ==
  IF a.High # b.High THEN a.High > b.High
  ELSE IF a.Overdue # b.Overdue THEN a.Overdue > b.Overdue
  ELSE IF a.GapTotal # b.GapTotal THEN FLt(a.GapTotal, b.GapTotal)
  ELSE StrLess(aName, bName)

\* C16 as worded: one row per distinct owner with the owner's counts, the
\* rows ordered by High descending, Overdue descending, gap total ascending
\* and then owner name ascending
C16_AsWorded ==
  \A rows \in OwnerSummaries(items) :
    /\ OneRowPerOwner(rows, items)
    /\ \A i, j \in DOMAIN rows : i < j => OwnerKeyLess(rows[i], rows[j], rows[i].Owner, rows[j].Owner)

\* C16: buildOwnerSummaries returns one row per distinct owner string with
\* the owner's award, High, Overdue and Due Soon counts and gap total, and
\* no row is followed by one that is smaller under High descending, Overdue
\* descending, gap total ascending, lower-cased owner name ascending
C16_OwnerRows ==
  \A rows \in OwnerSummaries(items) :
    /\ OneRowPerOwner(rows, items)
    /\ \A i, j \in DOMAIN rows :
         i < j => ~OwnerKeyLess(rows[j], rows[i],
                                ToLower(rows[j].Owner), ToLower(rows[i].Owner))

\* two rows that tie on the numbers are ordered by their lower-cased names,
\* against the byte order of the names
C16_Witness ==
  \E rows \in OwnerSummaries(items) :
    \E i, j \in DOMAIN rows :
      /\ i < j
      /\ OwnerNumbersTie(rows[i], rows[j])
      /\ StrLess(ToLower(rows[i].Owner), ToLower(rows[j].Owner))
      /\ StrLess(rows[j].Owner, rows[i].Owner)

\* three owners, the first row leading on High
C16_WitnessHigh ==
  \E rows \in OwnerSummaries(items) :
    Len(rows) = 3 /\ rows[1].High > rows[2].High

\* two owners in ascending order of their gap totals
C16_WitnessGap ==
  \E rows \in OwnerSummaries(items) :
    /\ Len(rows) = 2
    /\ rows[1].High = rows[2].High /\ rows[1].Overdue = rows[2].Overdue
    /\ FLt(rows[1].GapTotal, rows[2].GapTotal)

\* the positions of the text that hold no white space
Inked(text) == { i \in DOMAIN text : ~IsSpace(text[i]) }

Least(S) == CHOOSE x \in S : \A y \in S : x <= y

Greatest(S) == CHOOSE x \in S : \A y \in S : y <= x

\* the status a row stands for: the text between the first and the last
\* character that is not white space, or "Unspecified" when there is none
StatusAsStated(text) ==
  IF Inked(text) = {} THEN Unspecified
  ELSE SubSeq(text, Least(Inked(text)), Greatest(Inked(text)))

\* one row for each distinct status key, carrying the number of its items
OneRowPerStatus(rows, its) ==
  /\ Len(rows) = Cardinality({ StatusAsStated(its[i].data.Status) : i \in DOMAIN its })
  /\ { rows[k].Status : k \in DOMAIN rows }
       = { StatusAsStated(its[i].data.Status) : i \in DOMAIN its }
  /\ \A k \in DOMAIN rows :
       rows[k].Count
         = Cardinality({ i \in DOMAIN its : StatusAsStated(its[i].data.Status) = rows[k].Status })

\* row a comes strictly before row b: count descending, then the names
\* aName of a and bName of b ascending
StatusKeyLess(a, b, aName, bName) ==
  IF a.Count # b.Count THEN a.Count > b.Count
  ELSE StrLess(aName, bName)

\* C17 as worded: one row per distinct trimmed status (the empty one named
\* "Unspecified") with its item count, the rows ordered by count descending
\* and then status name ascending
C17_AsWorded ==
  \A rows \in StatusSummaries(items) :
    /\ OneRowPerStatus(rows, items)
    /\ \A i, j \in DOMAIN rows : i < j => StatusKeyLess(rows[i], rows[j], rows[i].Status, rows[j].Status)

\* C17: buildStatusSummary returns one row per distinct trimmed status (the
\* empty one named "Unspecified") with its item count, and no row is
\* followed by one that is smaller under count descending, lower-cased
\* status name ascending
C17_StatusRows ==
  \A rows \in StatusSummaries(items) :
    /\ OneRowPerStatus(rows, items)
    /\ \A i, j \in DOMAIN rows :
         i < j => ~StatusKeyLess(rows[j], rows[i],
                                 ToLower(rows[j].Status), ToLower(rows[i].Status))

\* two rows with equal counts are ordered by their lower-cased names,
\* against the byte order of the names
C17_Witness ==
  \E rows \in StatusSummaries(items) :
    \E i, j \in DOMAIN rows :
      /\ i < j
      /\ rows[i].Count = rows[j].Count
      /\ StrLess(ToLower(rows[i].Status), ToLower(rows[j].Status))
      /\ StrLess(rows[j].Status, rows[i].Status)

\* a padded status is counted with the bare one, the row of two items
\* leading, and a blank status is counted as "Unspecified"
C17_WitnessTrimmed ==
  \E rows \in StatusSummaries(items) :
    /\ Len(rows) = 2
    /\ rows[1].Count = 2
    /\ rows[2].Status = Unspecified
    /\ \E i \in DOMAIN items : items[i].data.Status = StatusPadded
    /\ \E i \in DOMAIN items : items[i].data.Status = StatusBlank

\* every sequence that holds the items of the sequence in some order
Arrangements(its) ==
  { [i \in DOMAIN its |-> its[order[i]]] : order \in Orders(DOMAIN its) }

\* C18: the three rollups are deterministic and independent of the order in
\* which the items arrive: repeated calls on one sequence, and calls on any
\* two sequences that are permutations of each other, return the same rows
\* in the same order, also when two group keys differ only in letter case
\* and tie on every numeric key
C18_RollupsDeterministic ==
  /\ Cardinality(OwnerSummaries(items)) = 1
  /\ Cardinality(CohortSummaries(items)) = 1
  /\ Cardinality(StatusSummaries(items)) = 1
  /\ \A other \in Arrangements(items) :
       /\ OwnerSummaries(other) = OwnerSummaries(items)
       /\ CohortSummaries(other) = CohortSummaries(items)
       /\ StatusSummaries(other) = StatusSummaries(items)

----------------------------------------------------------------------------
(* properties of the trend report *)

CountFields ==
  {"RecordCount", "Ahead", "OnTrack", "Behind", "Overdue", "DueSoon",
   "High", "Medium", "Low"}

AmountFields == {"TotalAwarded", "TotalDisbursed"}

\* the float64 c is a - b, for three finite values
IsDifference(c, a, b) ==
  /\ IsFinite(c)
  /\ c.n * a.d * b.d = (a.n * b.d - b.n * a.d) * c.d

\* every field of delta is the field of a minus the field of b
DeltaOf(delta, a, b) ==
  /\ DOMAIN delta = CountFields \cup AmountFields
  /\ \A f \in CountFields : delta[f] = a[f] - b[f]
  /\ \A f \in AmountFields : IsDifference(delta[f], a[f], b[f])

\* every field of x is the additive inverse of the field of y
Inverse(x, y) ==
  /\ \A f \in CountFields : x[f] = -y[f]
  /\ \A f \in AmountFields : IsDifference(x[f], FInt(0), y[f])

AllZero(delta) ==
  /\ \A f \in CountFields : delta[f] = 0
  /\ \A f \in AmountFields : delta[f] = FInt(0)

\* C19: buildTrendDelta(current, previous) is current - previous on every
\* field it reports, so exchanging the operands gives the additive inverse
\* and equal operands give all zeros; record counts 10 and 9 give +1
C19_TrendDelta ==
  out.op = "trend" =>
    /\ DeltaOf(out.delta, out.current, out.previous)
    /\ Inverse(buildTrendDelta(out.previous, out.current), out.delta)
    /\ AllZero(buildTrendDelta(out.current, out.current))
    /\ (out.current.RecordCount = 10 /\ out.previous.RecordCount = 9)
         => out.delta.RecordCount = 1

\* the delta of the two snapshots of the test has been reported
C19_Witness ==
  /\ out.op = "trend"
  /\ out.current = TestCurrent
  /\ out.previous = TestPrevious
  /\ out.delta.RecordCount = 1
  /\ out.delta.Overdue = 1
  /\ out.delta.DueSoon = -1
  /\ out.delta.TotalAwarded = FInt(10000)

----------------------------------------------------------------------------
(* properties of the check-in window *)

\* C20: a negative check-in window is clamped to 0 before classification:
\* buildItems with a negative window returns the items, with their check-in
\* labels and risk scores, that it returns with window 0, so a check-in due
\* in 0 days is Due Soon and one due in 1 day is Scheduled
C20_NegativeWindowIsZero ==
  checkinWindowDays < 0 =>
    /\ baseItems = buildItems(records, now, loc, 0)
    /\ \A i \in DOMAIN baseItems :
         baseItems[i].check.Label # "Unscheduled" =>
           /\ baseItems[i].check.Days = 0 => baseItems[i].check.Label = "Due Soon"
           /\ baseItems[i].check.Days >= 1 => baseItems[i].check.Label = "Scheduled"

\* with a negative window, a check-in due today has been classified
C20_Witness ==
  /\ checkinWindowDays < 0
  /\ baseItems # <<>>
  /\ baseItems[1].check.Days = 0
  /\ baseItems[1].check.Label = "Due Soon"
  /\ baseItems[1].risk.Score = RiskScoreOf(baseItems[1].pace.Label, "Due Soon")

\* with a negative window, a check-in due tomorrow has been classified
C20_WitnessTomorrow ==
  /\ checkinWindowDays < 0
  /\ baseItems # <<>>
  /\ baseItems[1].check.Days = 1
  /\ baseItems[1].check.Label = "Scheduled"

----------------------------------------------------------------------------
(* properties of the outputs and of the console *)

\* the check-in windows recorded with the outputs written so far: the
\* checkin_window_days of an export or a report, and the due_soon_window of
\* every stored snapshot
RecordedWindows ==
  (IF out.op \in {"export", "report"} /\ ~out.err THEN {out.window} ELSE {})
    \cup { row.due_soon_window : row \in db.snapshots }

\* C21: the check-in window recorded with an output (checkin_window_days in
\* exports and reports, DueSoonWindow in the persisted snapshot) equals the
\* window that was used to classify the items' check-ins, and is never
\* negative, whatever window the caller supplied.
C21_RecordedWindowIsUsedWindow ==
  \A window \in RecordedWindows : window = EffectiveWindow /\ window >= 0

\* the instant calculatePace takes for a date string: the parsed date, or
\* now when the string does not parse
OrNow(value) == IF ParseDate(value).err THEN now ELSE ParseDate(value).t

\* hours of the award period (at least one day) and hours elapsed in it (at
\* least none) with unparsable dates replaced by now
HoursTotal(record) ==
  IF OrNow(record.TargetDate) - OrNow(record.AwardDate) < HoursPerDay
    THEN HoursPerDay
    ELSE OrNow(record.TargetDate) - OrNow(record.AwardDate)

HoursElapsed(record) ==
  IF now - OrNow(record.AwardDate) < 0 THEN 0 ELSE now - OrNow(record.AwardDate)

\* x is elapsed / total, capped at 1
IsShare(x, elapsed, total) ==
  /\ IsFinite(x)
  /\ IF elapsed >= total THEN x.n = x.d ELSE x.n * total = elapsed * x.d

Unparsable(value) == ParseDate(value).err

\* C22: malformed or missing dates never drop a record: buildItems returns
\* exactly one item per input record, in input order, for every combination
\* of parsable, empty and unparsable award, target and check-in dates; an
\* unparsable award or target date is replaced by now (both unparsable gives
\* elapsed 0, total one day, expected 0), and an unparsable check-in date
\* gives Unscheduled.
C22_MalformedDatesDegrade ==
  /\ Len(baseItems) = Len(records)
  /\ \A i \in DOMAIN records :
       /\ baseItems[i].data = records[i]
       /\ IsShare(baseItems[i].pace.Expected, HoursElapsed(records[i]), HoursTotal(records[i]))
       /\ (Unparsable(records[i].AwardDate) /\ Unparsable(records[i].TargetDate))
            => /\ HoursElapsed(records[i]) = 0
               /\ HoursTotal(records[i]) = HoursPerDay
               /\ baseItems[i].pace.Expected = FInt(0)
       /\ Unparsable(records[i].NextCheckin)
            => baseItems[i].check = [Label |-> "Unscheduled", Days |-> 0, Date |-> 0]

\* after a refresh, two records in their input order: the first with an
\* empty award date, an unparsable target date and an unparsable check-in,
\* the second with only the target date unparsable, whose expected share is
\* therefore 1
C22_Witness ==
  /\ now > T0 - 6
  /\ Len(baseItems) = 2
  /\ records[1].AwardDate = <<>> /\ records[1].TargetDate = NotADate
  /\ records[1].NextCheckin = NotADate
  /\ baseItems[1].data = records[1]
  /\ baseItems[1].check.Label = "Unscheduled"
  /\ records[2].AwardDate = <<2025, 1, 1>> /\ records[2].TargetDate = NotADate
  /\ baseItems[2].pace.Expected = FInt(1)

\* the pieces of the text between its commas
Segments(raw) ==
  UNION { { SubSeq(raw, i, j) : j \in { j \in (i - 1)..Len(raw) :
                                          /\ j = Len(raw) \/ raw[j + 1] = Comma
                                          /\ \A k \in i..j : raw[k] # Comma } } :
            i \in { i \in 1..(Len(raw) + 1) : i = 1 \/ raw[i - 1] = Comma } }

\* the trimmed, lower-cased comma-separated values of a flag
FilterValues(raw) == { ToLower(TrimSpace(segment)) : segment \in Segments(raw) } \ {<<>>}

\* the trimmed, lower-cased status of a record, "unspecified" when empty
StatusValue(record) ==
  IF ToLower(TrimSpace(record.Status)) = <<>> THEN ToLower(Unspecified)
  ELSE ToLower(TrimSpace(record.Status))

Admits(raw, value) == FilterValues(raw) = {} \/ value \in FilterValues(raw)

Keeps(record) ==
  /\ Admits(filterFlags.owner, ToLower(TrimSpace(record.Owner)))
  /\ Admits(filterFlags.cohort, ToLower(TrimSpace(record.Cohort)))
  /\ Admits(filterFlags.status, StatusValue(record))

\* C23: applyRecordFilters keeps a record iff, for each of the owner, cohort
\* and status dimensions that has a non-empty filter set, the record's
\* trimmed, lower-cased field value (an empty status counting as
\* "unspecified") is one of the trimmed, lower-cased comma-separated filter
\* values; dimensions combine with AND, values within a dimension with OR,
\* the output preserves the input order, and with no filters the input is
\* returned unchanged.
C23_RecordFilters ==
  /\ records = SelectSeq(loaded, LAMBDA record : Keeps(record))
  /\ (FilterValues(filterFlags.owner) = {} /\ FilterValues(filterFlags.cohort) = {}
        /\ FilterValues(filterFlags.status) = {}) => records = loaded

\* flags -owner " X , y" -status "hold,,Unspecified ": of two loaded records
\* the one of owner "Y" with the blank status is kept, the other is dropped
C23_Witness ==
  /\ filterFlags.owner = <<32, 88, 32, 44, 32, 121>>
  /\ filterFlags.status = StatusHold \o <<44, 44>> \o Unspecified \o <<32>>
  /\ Len(loaded) = 2 /\ Len(records) = 1
  /\ records[1] = loaded[2]
  /\ records[1].Owner = OwnerY /\ records[1].Status = StatusBlank

\* the flag -owner "," names no value: both loaded records are kept
C23_WitnessNoValue ==
  /\ filterFlags = [owner |-> <<44>>, cohort |-> <<>>, status |-> <<>>]
  /\ Len(loaded) = 2 /\ records = loaded

\* C24: in the console the f key toggles the focus filter between exactly
\* two modes, all and risk: a step that changes the focus mode goes from all
\* to risk or from risk back to all.
C24_FocusTogglesTwoModes ==
  [][ filterMode' # filterMode =>
        \/ filterMode = "all" /\ filterMode' = "risk"
        \/ filterMode = "risk" /\ filterMode' = "all" ]_vars

\* C25: recomputing never alters an item sequence produced before: sortItems
\* and applyFilter leave the array of their argument as it was, sortItems
\* returns another array holding a permutation of its argument, and after a
\* refresh, sort or focus key every array the console held before the key
\* still holds the same items in the same order.
C25_NoMutation ==
  /\ out.op = "sortItems" =>
       /\ out.input = out.arg
       /\ out.fresh
       /\ IsPermutation(out.items, out.arg)
  /\ out.op = "applyFilter" => out.input = out.arg
  /\ arrays.intact
  /\ ~arrays.shared

\* the sort key has reordered the displayed items into another array than
\* the one of the base items, and a direct call of sortItems has returned the
\* base items in another order
C25_Witness ==
  /\ sortMode = "alpha"
  /\ Len(items) = 2 /\ items # baseItems /\ IsPermutation(items, baseItems)
  /\ ~arrays.shared
  /\ out.op = "sortItems" /\ out.items # out.input

\* the text ends with the suffix
EndsWith(text, suffix) ==
  /\ Len(text) >= Len(suffix)
  /\ SubSeq(text, Len(text) - Len(suffix) + 1, Len(text)) = suffix

\* the explicit format as it is read: letter case and surrounding spaces
\* ignored
Explicit(format) == ToLower(TrimSpace(format))

\* the format a call must resolve to when the path carries the json
\* extension or not; "" stands for the error
FormatAsStated(format, jsonPath) ==
  IF Explicit(format) = <<>> THEN (IF jsonPath THEN "json" ELSE "text")
  ELSE IF Explicit(format) \in {StrText, StrTxt} THEN "text"
  ELSE IF Explicit(format) = StrJson THEN "json"
  ELSE ""

Resolved(jsonPath) ==
  /\ out.format = FormatAsStated(out.arg, jsonPath)
  /\ out.err <=> FormatAsStated(out.arg, jsonPath) = ""

\* C26 as worded: normalizeReportFormat gives text for an explicit format
\* text or txt (any case, surrounding spaces ignored), json for json, an
\* error for any other non-empty format; with an empty format the path
\* extension decides, .json giving json and every other extension or none
\* giving text.
C26_AsWorded ==
  out.op = "normalizeReportFormat" => Resolved(EndsWith(out.path, DotJson))

\* C26, amended: the same, with the extension .json read in any letter case.
C26_ReportFormat ==
  out.op = "normalizeReportFormat" => Resolved(EndsWith(ToLower(out.path), DotJson))

\* the path "r.JSON" with the blank format " " has resolved to json
C26_Witness ==
  /\ out.op = "normalizeReportFormat"
  /\ out.path = <<114, 46, 74, 83, 79, 78>> /\ out.arg = <<32>>
  /\ out.format = "json" /\ ~out.err

\* the format " TXT " has resolved to text for the path "r.json"
C26_WitnessExplicit ==
  /\ out.op = "normalizeReportFormat"
  /\ out.path = PathJson /\ out.arg = <<32, 84, 88, 84, 32>>
  /\ out.format = "text" /\ ~out.err

\* the displayed items are the base items, filtered and sorted by the modes
Consistent ==
  /\ items = sortItems(applyFilter(baseItems, filterMode), sortMode)
  /\ filterMode \in {"all", "risk", "high"}
  /\ sortMode \in {"priority", "alpha"}

\* a step of s changes only the sort mode, one of f only the filter mode and
\* one of i only the insights flag, of the two modes, the flag and the base
\* items; i leaves the displayed items as they are too
KeysChangeOwnField ==
  /\ KeyS => sortMode' # sortMode /\ UNCHANGED <<filterMode, showInsights, baseItems>>
  /\ KeyF => filterMode' # filterMode /\ UNCHANGED <<sortMode, showInsights, baseItems>>
  /\ KeyI => showInsights' # showInsights
               /\ UNCHANGED <<sortMode, filterMode, baseItems, items>>
  /\ sortMode' # sortMode => UNCHANGED <<filterMode, showInsights>>
  /\ filterMode' # filterMode => UNCHANGED <<sortMode, showInsights>>
  /\ showInsights' # showInsights => UNCHANGED <<sortMode, filterMode, items>>

\* C27: from the model built in main and after any sequence of key presses
\* (r, s, f, i, other keys) and window-size messages, m.items =
\* sortItems(applyFilter(m.baseItems, m.filterMode), m.sortMode), the filter
\* mode is one of all, risk, high and the sort mode one of priority, alpha;
\* s changes only the sort mode, f only the filter mode and i only the
\* insights flag.
C27_Consistency == []Consistent /\ [][KeysChangeOwnField]_vars

\* a console in mode risk, sorted by name, with the insights shown, after a
\* window-size message, displays two items in another order than the base
\* items hold them
C27_Witness ==
  /\ filterMode = "risk" /\ sortMode = "alpha" /\ showInsights /\ ready
  /\ Len(items) = 2
  /\ items # applyFilter(baseItems, filterMode)

\* every item of s is in t at least as many times
Within(s, t) == \A x \in Range(s) : Count(s, x) <= Count(t, x)

\* High only with Behind, and the items of mode high among those of mode
\* risk
Nested ==
  /\ \A i \in DOMAIN baseItems :
       baseItems[i].risk.Level = "High" => baseItems[i].pace.Label = "Behind"
  /\ Within(applyFilter(baseItems, "high"), applyFilter(baseItems, "risk"))
  /\ Within(applyFilter(baseItems, "risk"), baseItems)

\* a step from mode all to mode risk, or from mode risk to mode high,
\* displays no item that was not displayed
Narrows ==
  (\/ filterMode = "all" /\ filterMode' = "risk"
   \/ filterMode = "risk" /\ filterMode' = "high")
    => Within(items', items) /\ Len(items') <= Len(items)

\* C28: for every item built by buildItems, risk level High implies pace
\* label Behind; every item kept by applyFilter mode high is also kept by
\* mode risk; successive f presses from all to risk to high never enlarge
\* the displayed set.
C28_FocusNested == []Nested /\ [][Narrows]_vars

\* mode high displays one High item of two base items, of which mode risk
\* keeps both
C28_Witness ==
  /\ filterMode = "high" /\ Len(baseItems) = 2
  /\ Len(items) = 1 /\ items[1].risk.Level = "High" /\ items[1].pace.Label = "Behind"
  /\ Len(applyFilter(baseItems, "risk")) = 2

\* the base items hold an item that is not Behind with every check-in label
\* but Scheduled, and none of them is High
C28_WitnessNotBehind ==
  /\ Len(baseItems) = 2
  /\ \E i, j \in DOMAIN baseItems :
       /\ baseItems[i].pace.Label = "On Track" /\ baseItems[i].check.Label = "Overdue"
       /\ baseItems[j].pace.Label = "Ahead" /\ baseItems[j].check.Label = "Unscheduled"
       /\ baseItems[i].risk.Level # "High" /\ baseItems[j].risk.Level # "High"

\* the sum of the field over the rows, for a count and for an amount
RowsCount(rows, field) == SumInt([i \in DOMAIN rows |-> rows[i][field]], DOMAIN rows)

RowsAmount(rows, field) == SumFloat([i \in DOMAIN rows |-> rows[i][field]], DOMAIN rows)

NewSnapshots == db.snapshots \ out.before.snapshots

NewAwards == db.awards \ out.before.awards

\* the run has left the rows of both tables as it found them
NothingStored ==
  db.snapshots = out.before.snapshots /\ db.awards = out.before.awards

\* the run has added one snapshot row, under an id no row had, and one award
\* row that references it for every item, and removed nothing
OneSnapshotStored ==
  /\ out.before.snapshots \subseteq db.snapshots
  /\ out.before.awards \subseteq db.awards
  /\ Cardinality(NewSnapshots) = 1
  /\ Cardinality(NewAwards) = Len(out.items)
  /\ \A snapshot \in NewSnapshots :
       /\ \A row \in out.before.snapshots : row.id # snapshot.id
       /\ \A row \in out.before.awards : row.snapshot_id # snapshot.id
       /\ \A row \in NewAwards : row.snapshot_id = snapshot.id
       /\ \A i \in DOMAIN out.items :
            Cardinality({ row \in NewAwards :
                            /\ row.scholar = out.items[i].data.Scholar
                            /\ row.disbursed_to_date = out.items[i].data.DisbursedToDate })
              = Cardinality({ j \in DOMAIN out.items :
                                /\ out.items[j].data.Scholar = out.items[i].data.Scholar
                                /\ out.items[j].data.DisbursedToDate
                                     = out.items[i].data.DisbursedToDate })

\* C30: insertSnapshot is all-or-nothing: if the snapshot insert, the
\* statement preparation, any award-row insert or the commit fails, an error
\* is returned and the database contains neither the new snapshot row nor
\* any of its award rows; if it returns nil, exactly one new snapshot row and
\* exactly len(items) award rows referencing its id have been committed.
C30_AllOrNothing ==
  out.op = "sync" =>
    /\ out.err <=> out.fault.at # "none"
    /\ out.err => NothingStored
    /\ ~out.err => OneSnapshotStored

\* the insert of the second of two items has failed, after a snapshot row
\* and an award row were written in the transaction, in a database that held
\* a snapshot: the ids are used up and no row is left
C30_Witness ==
  /\ out.op = "sync" /\ out.err /\ out.fault = awardFault(2)
  /\ Len(out.items) = 2
  /\ out.before.snapshots # {}
  /\ db.snapshotSeq = out.before.snapshotSeq + 1
  /\ db.awardSeq = out.before.awardSeq + 1
  /\ NothingStored

\* a second snapshot of two items has been committed
C30_WitnessStored ==
  /\ out.op = "sync" /\ ~out.err
  /\ Len(out.items) = 2
  /\ out.before.snapshots # {}
  /\ Cardinality(db.snapshots) = 2 /\ Cardinality(db.awards) = 4

====
